---------------------------- MODULE Spec2Model ----------------------------
(***************************************************************************)
(* Model of cpsm, a fuzzy path matcher.                                    *)
(*                                                                         *)
(* The repository holds two generations of the matcher:                    *)
(*   - the template Matcher of src/src/matcher.h, driven by the batched    *)
(*     parallel pipeline for_each_match of src/src/api.h;                  *)
(*   - the Matcher of src/src/matcher.cc, driven by cpsm::match of         *)
(*     src/src/cpsm.h and by the command line tool.                        *)
(* Strings are sequences of character codes.  Iterators are modelled as    *)
(* 0-based offsets into the vector they point into; a reverse iterator is  *)
(* modelled by the offset of its base().                                   *)
(***************************************************************************)
EXTENDS Integers, Sequences, FiniteSets, TLC

\* the build of the program: char_signed tells whether plain char is a
\* signed type (implementation-defined: it is on x86, it is not on ARM), icu
\* whether CPSM_CONFIG_ICU is set
VARIABLE build

(***************************************************************************)
(* Characters (ASCII codes) and the string traits                          *)
(***************************************************************************)
ChSlash == 47
ChDot == 46
ChUpperA == 65
ChUpperZ == 90
ChLowerA == 97
ChLowerZ == 122
ChDigit0 == 48
ChDigit9 == 57

\* 0-based element access, as *(v.begin() + i)
At(s, i) == s[i + 1]

Max(a, b) == IF a >= b THEN a ELSE b
Min(a, b) == IF a <= b THEN a ELSE b

\* SimpleStringTraits::is_uppercase (the ICU property agrees on the code
\* points of the model: ASCII, CJK ideographs and the 0xDCxx sentinels)
is_uppercase(c) == c >= ChUpperA /\ c <= ChUpperZ

\* the code points outside ASCII with the ICU property POSIX_ALNUM among
\* those the model's UTF-8 strings decode to: U+65E5
IcuAlnum == {26085}

\* SimpleStringTraits::is_alphanumeric; with unicode the ICU POSIX_ALNUM
\* property, which adds the letters outside ASCII
is_alphanumeric(c, unicode) ==
    \/ (c >= ChDigit0 /\ c <= ChDigit9)
    \/ (c >= ChLowerA /\ c <= ChLowerZ)
    \/ (c >= ChUpperA /\ c <= ChUpperZ)
    \/ (unicode /\ c \in IcuAlnum)

\* SimpleStringTraits::uppercase_to_lowercase
uppercase_to_lowercase(c) == c + (ChLowerA - ChUpperA)

\* PlatformPathTraits::is_path_separator / NonPathTraits::is_path_separator
is_path_separator(c, path) == path /\ c = ChSlash

\* PlatformPathTraits::is_extension_separator / NonPathTraits
is_extension_separator(c, path) == path /\ c = ChDot

\* boost::string_ref operator< : lexicographic comparison of the bytes
RECURSIVE StrLessFrom(_, _, _)
StrLessFrom(x, y, i) ==
    IF i > Len(y) THEN FALSE
    ELSE IF i > Len(x) THEN TRUE
    ELSE IF x[i] /= y[i] THEN x[i] < y[i]
    ELSE StrLessFrom(x, y, i + 1)

StrLess(x, y) == StrLessFrom(x, y, 1)

(***************************************************************************)
(* UTF-8 decoding: Utf8StringTraits::for_each_char                         *)
(***************************************************************************)
SurrogateBase == 56320

\* the conversion of a char to char32_t: where char is signed, a byte above
\* 0x7f is a negative char and converts to 2^32 + (byte - 256), which is
\* kept here as the negative number byte - 256
CharToChar32(byte) ==
    IF build.char_signed /\ byte >= 128 THEN byte - 256 ELSE byte

\* a < k on char32_t, a negative number standing for 2^32 + a
ULess(a, k) == a >= 0 /\ a < k

\* lookahead(n) on the string from offset pos
Lookahead(str, pos, n) ==
    IF pos + n >= Len(str) THEN 0 ELSE CharToChar32(At(str, pos + n))

\* (b & 0xc0) == 0x80
is_continuation(b) == ((b % 256) \div 64) = 2

\* one step of the loop: the pair <<code point, length in bytes>> decoded
\* at offset pos
DecodeOne(str, pos) ==
    LET b0 == Lookahead(str, pos, 0)
        b1 == Lookahead(str, pos, 1)
        b2 == Lookahead(str, pos, 2)
        b3 == Lookahead(str, pos, 3)
        \* the lambda invalid captures the b0 declared before the loop,
        \* which stays 0; the loop's own b0 shadows it
        outer_b0 == 0
        invalid == <<SurrogateBase + outer_b0, 1>>
    IN  IF b0 = 0 THEN invalid
        ELSE IF ULess(b0, 128) THEN <<b0, 1>>
        ELSE IF ULess(b0, 194) THEN invalid
        ELSE IF ULess(b0, 224) THEN
            IF ~is_continuation(b1) THEN invalid
            ELSE <<((b0 % 32) * 64) + (b1 % 64), 2>>
        ELSE IF ULess(b0, 240) THEN
            IF ~is_continuation(b1) \/ ~is_continuation(b2) THEN invalid
            ELSE IF b0 = 224 /\ ULess(b1, 160) THEN invalid
            ELSE <<((b0 % 16) * 4096) + ((b1 % 64) * 64) + (b2 % 64), 3>>
        ELSE IF ULess(b0, 245) THEN
            IF ~is_continuation(b1) \/ ~is_continuation(b2)
               \/ ~is_continuation(b3) THEN invalid
            ELSE IF b0 = 240 /\ ULess(b1, 144) THEN invalid
            ELSE IF b0 = 244 /\ ~ULess(b1, 144) THEN invalid
            ELSE <<((b0 % 8) * 262144) + ((b1 % 64) * 4096)
                   + ((b2 % 64) * 64) + (b3 % 64), 4>>
        ELSE invalid

\* the sequence of f(c, pos, len) calls, as records [c, pos, len]
\* (p is the offset and d the pair decoded there, each computed once)
RECURSIVE Utf8ForEachChar(_, _)
Utf8ForEachChar(str, pos) ==
    IF pos >= Len(str) THEN <<>>
    ELSE CHOOSE calls \in
             { <<[c |-> d[1], pos |-> p, len |-> d[2]]>>
                   \o Utf8ForEachChar(str, p + d[2]) :
               <<p, d>> \in {<<pos, DecodeOne(str, pos)>>} } : TRUE

\* SimpleStringTraits::for_each_char
SimpleForEachChar(str) ==
    [i \in 1..Len(str) |-> [c |-> str[i], pos |-> i - 1, len |-> 1]]

for_each_char(str, unicode) ==
    IF unicode THEN Utf8ForEachChar(str, 0) ELSE SimpleForEachChar(str)

\* decode<StringTraits>: keeps the characters and drops pos and len
decode(str, unicode) ==
    LET cs == for_each_char(str, unicode)
    IN  [i \in 1..Len(cs) |-> cs[i].c]

(***************************************************************************)
(* Path utilities of src/src/path_util.h                                   *)
(***************************************************************************)
\* path_basename<PathTraits>(first, last): offset after the last path
\* separator of [first, last), or first
RECURSIVE path_basename(_, _, _, _)
path_basename(s, first, last, path) ==
    IF last = first THEN first
    ELSE IF is_path_separator(At(s, last - 1), path) THEN last
    ELSE path_basename(s, first, last - 1, path)

\* mismatch(first1, last1, first2, last2): length of the common prefix
RECURSIVE mismatch(_, _, _)
mismatch(x, y, i) ==
    IF i < Len(x) /\ i < Len(y) /\ At(x, i) = At(y, i)
    THEN mismatch(x, y, i + 1) ELSE i

CountSeparators(s, from, path) ==
    Cardinality({i \in from..(Len(s) - 1) : is_path_separator(At(s, i), path)})

\* a distance that skips the comparison of the two paths
path_distance_never_zero(x, y, path) ==
    CountSeparators(x, 0, path) + CountSeparators(y, 0, path) + 1

\* path_distance<PathTraits>(first1, last1, first2, last2)
path_distance(x, y, path) ==
    LET mm == mismatch(x, y, 0)
    IN  IF mm = Len(x) /\ mm = Len(y) THEN 0
        ELSE CountSeparators(x, mm, path) + CountSeparators(y, mm, path) + 1

(***************************************************************************)
(* Matcher<PathTraits, StringTraits> of src/src/matcher.h                  *)
(***************************************************************************)
\* enum class PrefixLevel
NONE == 0
COMPONENT == 1
BASENAME_WORD == 2

\* a value-initialized CharProperties
ZeroProps == [uppercase |-> FALSE, alphanumeric |-> FALSE, word_start |-> FALSE]

\* std::vector<CharProperties>::resize(n): the elements below the old size
\* keep their values, new elements are value-initialized
Resize(props, n) ==
    [i \in 1..n |-> IF i <= Len(props) THEN props[i] ELSE ZeroProps]

\* Matcher::find_word_endings(first, last) over the vector s
RECURSIVE find_word_endings_loop(_, _, _, _, _, _, _)
find_word_endings_loop(s, it, last, prev_uppercase, prev_alphanumeric, word_ends, unicode) ==
    IF it = last THEN
        IF prev_alphanumeric THEN Append(word_ends, last - 1) ELSE word_ends
    ELSE
        LET c == At(s, it)
            next_uppercase == is_uppercase(c)
            next_alphanumeric == is_alphanumeric(c, unicode)
            we == IF prev_alphanumeric
                     /\ (~next_alphanumeric \/ (~prev_uppercase /\ next_uppercase))
                  THEN Append(word_ends, it - 1) ELSE word_ends
        IN  find_word_endings_loop(s, it + 1, last, next_uppercase,
                                   next_alphanumeric, we, unicode)

find_word_endings(s, first, last, unicode) ==
    find_word_endings_loop(s, first, last, FALSE, FALSE, <<>>, unicode)

\* offset after the rightmost extension separator of [first, last), or first:
\* std::find_if(crbegin, ReverseIterator(first), is_extension_separator).base()
RECURSIVE find_ext(_, _, _, _)
find_ext(s, first, last, path) ==
    IF last = first THEN first
    ELSE IF is_extension_separator(At(s, last - 1), path) THEN last
    ELSE find_ext(s, first, last - 1, path)

\* Matcher::Matcher(query, opts): the persistent state, and the per-item
\* state before the first match
Matcher(query, crfile, match_crfile, path, unicode) ==
    LET q == decode(query, unicode)
        cr == decode(crfile, unicode)
        crb == path_basename(cr, 0, Len(cr), path)
        cre == find_ext(cr, crb, Len(cr), path)
    IN  [ path |-> path,
          unicode |-> unicode,
          query_ |-> q,
          query_basename_ |-> path_basename(q, 0, Len(q), path),
          case_sensitive_ |-> \E i \in 1..Len(q) : is_uppercase(q[i]),
          crfile_ |-> cr,
          crfile_basename_ |-> crb,
          crfile_ext_ |-> cre,
          crfile_basename_word_ends_ |-> find_word_endings(cr, crb, cre, unicode),
          match_crfile_ |-> match_crfile,
          item_ |-> <<>>,
          item_basename_ |-> 0,
          props_ |-> <<>>,
          qit_basename_ |-> 0,
          qit_basename_words_ |-> <<>>,
          prefix_level_ |-> NONE,
          whole_basename_match_ |-> FALSE,
          basename_longest_submatch_ |-> 0,
          basename_match_count_ |-> 0,
          basename_word_gaps_ |-> 0,
          crfile_basename_shared_words_ |-> 0,
          crfile_path_distance_ |-> 0,
          unmatched_suffix_len_ |-> 0,
          matched |-> FALSE,
          ub |-> FALSE ]

\* a scan that never folds
ScanChar_unfolded(m, i) == At(m.item_, i)

\* the character the scan compares: folded when the match is case-insensitive
ScanChar(m, i) ==
    IF ~m.case_sensitive_ /\ m.props_[i + 1].uppercase
    THEN uppercase_to_lowercase(At(m.item_, i)) ELSE At(m.item_, i)

RECURSIVE scan_match_loop(_, _, _)
\* a scan that gives up at the first character that differs once the query
\* has begun to match
scan_match_loop_contiguous(m, item_it, query_it) ==
    IF item_it = Len(m.item_) THEN FALSE
    ELSE IF ScanChar(m, item_it) = At(m.query_, query_it) THEN
        IF query_it + 1 = Len(m.query_) THEN TRUE
        ELSE scan_match_loop(m, item_it + 1, query_it + 1)
    ELSE query_it = 0 /\ scan_match_loop(m, item_it + 1, 0)

\* Matcher::scan_match<CaseSensitive>
scan_match_loop(m, item_it, query_it) ==
    IF item_it = Len(m.item_) THEN FALSE
    ELSE IF ScanChar(m, item_it) = At(m.query_, query_it) THEN
        IF query_it + 1 = Len(m.query_) THEN TRUE
        ELSE scan_match_loop(m, item_it + 1, query_it + 1)
    ELSE scan_match_loop(m, item_it + 1, query_it)

\* a scan that lets the empty item pass
scan_match_accepting_empty(m) ==
    Len(m.query_) = 0 \/ Len(m.item_) = 0 \/ scan_match_loop(m, 0, 0)

\* Matcher::scan, second half: the query is searched in the item
scan_match(m) ==
    IF Len(m.query_) = 0 THEN TRUE ELSE scan_match_loop(m, 0, 0)

\* Matcher::scan, first half: props_.resize and the uppercase flags
ScanProps(m) ==
    LET r == Resize(m.props_, Len(m.item_))
    IN  [i \in 1..Len(m.item_) |->
            [r[i] EXCEPT !.uppercase = is_uppercase(m.item_[i])]]

\* the lambda of check_crfile that computes crfile_basename_shared_words_:
\* k is the offset of crfile_word_end_it in crfile_basename_word_ends_
RECURSIVE shared_words_loop(_, _, _, _)
shared_words_loop(m, item_it, crfile_it, k) ==
    IF item_it /= Len(m.item_) /\ crfile_it /= Len(m.crfile_)
       /\ At(m.item_, item_it) = At(m.crfile_, crfile_it)
    THEN
        IF crfile_it = At(m.crfile_basename_word_ends_, k) THEN
            IF k + 1 = Len(m.crfile_basename_word_ends_) THEN
                IF (item_it + 1 < Len(m.item_))
                   /\ ~m.props_[item_it + 2].uppercase
                   /\ m.props_[item_it + 2].alphanumeric
                THEN k ELSE k + 1
            ELSE shared_words_loop(m, item_it + 1, crfile_it + 1, k + 1)
        ELSE shared_words_loop(m, item_it + 1, crfile_it + 1, k)
    ELSE k

shared_words(m) ==
    IF Len(m.crfile_basename_word_ends_) = 0 THEN 0
    ELSE shared_words_loop(m, m.item_basename_, m.crfile_basename_, 0)

\* Matcher::check_crfile; the verdict is the field matched
check_crfile(m) ==
    LET d == path_distance(m.item_, m.crfile_, m.path)
        n == Len(m.item_)
        ib == IF n /= 0 /\ is_path_separator(At(m.item_, n - 1), m.path)
              THEN path_basename(m.item_, 0, n - 1, m.path)
              ELSE path_basename(m.item_, 0, n, m.path)
        props == [i \in 1..n |->
                    IF i > ib
                    THEN [m.props_[i] EXCEPT
                            !.alphanumeric = is_alphanumeric(m.item_[i], m.unicode)]
                    ELSE m.props_[i]]
        m1 == [m EXCEPT !.crfile_path_distance_ = d]
        m2 == [m1 EXCEPT !.item_basename_ = ib, !.props_ = props]
    IN  IF ~m.match_crfile_ /\ d = 0
        THEN [m1 EXCEPT !.matched = FALSE]
        ELSE [m2 EXCEPT !.crfile_basename_shared_words_ = shared_words(m2),
                        !.unmatched_suffix_len_ = n - ib,
                        !.matched = TRUE]

\* Matcher::make_item_matchcase
make_item_matchcase(m) ==
    IF m.case_sensitive_ THEN m.item_
    ELSE [i \in 1..Len(m.item_) |->
            IF m.props_[i].uppercase
            THEN uppercase_to_lowercase(m.item_[i]) ELSE m.item_[i]]

\* Matcher::consume_path_component_match_front.  ib and qb are the bases of
\* item_rit and query_rit (a reverse iterator refers to the element before
\* its base); the result is <<ib, qb>> after the call.
RECURSIVE consume_component_loop(_, _, _)
consume_component_loop(m, ib, qb) ==
    LET qb1 == IF qb /= 0 /\ At(m.item_, ib - 1) = At(m.query_, qb - 1)
               THEN qb - 1 ELSE qb
        ib1 == ib - 1
    IN  IF ib1 = 0 \/ is_path_separator(At(m.item_, ib1 - 1), m.path)
        THEN <<ib1, qb1>>
        ELSE consume_component_loop(m, ib1, qb1)

RECURSIVE find_front(_, _, _, _)
find_front(m, item_pc_front, query_it, query_last) ==
    IF query_it = query_last THEN query_it
    ELSE IF item_pc_front = At(m.query_, query_it) THEN query_it
    ELSE find_front(m, item_pc_front, query_it + 1, query_last)

consume_path_component_match_front(m, ib, qb) ==
    LET r == consume_component_loop(m, ib, qb)
        item_pc_front == At(m.item_, r[1])
    IN  <<r[1], find_front(m, item_pc_front, r[2], qb)>>

\* the loop "Try to consume the remainder of the query" of
\* check_component_match_front: TRUE iff the query is consumed
RECURSIVE consume_remainder(_, _, _)
consume_remainder(m, ib, qb) ==
    IF qb = 0 THEN TRUE
    ELSE IF ib = 0 THEN FALSE
    ELSE LET r == consume_path_component_match_front(m, ib, qb)
         IN  consume_remainder(m, r[1], r[2])

\* Matcher::check_component_match_front; the verdict is prefix_level_ = COMPONENT
check_component_match_front(m) ==
    LET r == consume_path_component_match_front(m, Len(m.item_), Len(m.query_))
        m1 == [m EXCEPT !.qit_basename_ = r[2],
                        !.whole_basename_match_ = (r[2] = m.query_basename_),
                        !.basename_match_count_ = Len(m.query_) - r[2]]
    IN  IF consume_remainder(m, r[1], r[2])
        THEN [m1 EXCEPT !.prefix_level_ = COMPONENT]
        ELSE m1

\* The lambda consume_word_prefix of check_basename_match_word_prefix.  The
\* state s holds the locals item_it, query_it, prev_uppercase (pu),
\* prev_alphanumeric (pa), and the members props_ and qit_basename_words_
\* (words); props_it always equals item_it.
RECURSIVE consume_word_prefix(_, _, _)
consume_word_prefix(m, s, can_match) ==
    LET try == can_match \/ ~s.pa
        eq == At(m.item_, s.item_it) = At(m.query_, s.query_it)
        q1 == IF try /\ eq THEN s.query_it + 1 ELSE s.query_it
        cm1 == IF try /\ ~eq THEN FALSE ELSE can_match
        it1 == s.item_it + 1
    IN  IF try /\ eq /\ q1 = Len(m.query_) THEN [s EXCEPT !.query_it = q1]
        ELSE IF it1 = Len(m.item_) THEN [s EXCEPT !.query_it = q1, !.item_it = it1]
        ELSE
            LET uppercase == s.props[it1 + 1].uppercase
                alphanumeric == s.props[it1 + 1].alphanumeric
                word_start == (~s.pu /\ uppercase) \/ (~s.pa /\ alphanumeric)
                s1 == [s EXCEPT !.query_it = q1, !.item_it = it1,
                                !.props[it1 + 1].word_start = word_start,
                                !.pu = uppercase, !.pa = alphanumeric]
            IN  IF word_start THEN s1 ELSE consume_word_prefix(m, s1, cm1)

\* the "steal" loop: the rightmost j in (words.back(), query_it) with
\* query_[j] = c, or query_it when there is none
RECURSIVE steal(_, _, _, _, _)
steal(m, c, base, limit, query_it) ==
    IF base <= limit THEN query_it
    ELSE IF c = At(m.query_, base - 1) THEN base - 1
    ELSE steal(m, c, base - 1, limit, query_it)

\* the while loop of check_basename_match_word_prefix; the result is the
\* final state with ok = the returned verdict
RECURSIVE word_prefix_loop(_, _)
word_prefix_loop(m, s) ==
    IF s.query_it = Len(m.query_)
    THEN [s EXCEPT !.ok = TRUE, !.words = Append(s.words, s.query_it)]
    ELSE IF s.item_it = Len(m.item_) THEN [s EXCEPT !.ok = FALSE]
    ELSE LET c == At(m.item_, s.item_it)
             q1 == IF c /= At(m.query_, s.query_it)
                   THEN steal(m, c, s.query_it, s.words[Len(s.words)] + 1, s.query_it)
                   ELSE s.query_it
             s1 == [s EXCEPT !.query_it = q1, !.words = Append(s.words, q1)]
         IN  word_prefix_loop(m, consume_word_prefix(m, s1, TRUE))

\* Matcher::check_basename_match_word_prefix; the verdict is
\* prefix_level_ = BASENAME_WORD
check_basename_match_word_prefix(m) ==
    LET ib == m.item_basename_
        words0 == <<m.qit_basename_>>
    IN  IF ib = Len(m.item_) \/ m.qit_basename_ = Len(m.query_)
        THEN [m EXCEPT !.qit_basename_words_ = words0]
        ELSE
            LET s0 == [ item_it |-> ib, query_it |-> m.qit_basename_,
                        props |-> [m.props_ EXCEPT ![ib + 1].word_start = TRUE],
                        pu |-> m.props_[ib + 1].uppercase,
                        pa |-> m.props_[ib + 1].alphanumeric,
                        words |-> words0, ok |-> FALSE ]
                s == word_prefix_loop(m, consume_word_prefix(m, s0, TRUE))
                m1 == [m EXCEPT !.props_ = s.props, !.qit_basename_words_ = s.words]
            IN  IF s.ok THEN [m1 EXCEPT !.prefix_level_ = BASENAME_WORD]
                ELSE [m1 EXCEPT !.basename_longest_submatch_ = 0,
                                !.basename_word_gaps_ = 0]

\* The loop of score_basename_word_prefix_match.  s holds item_it, query_it,
\* the offset wi of qit_words_it, query_word_last (qwl), current_submatch
\* (cur), any_word_matches (any), and the two members it updates.  The code
\* does not compare against the end of item_, props_ or
\* qit_basename_words_; a read past one of them is reported in ub.
RECURSIVE score_word_prefix_loop(_, _)
score_word_prefix_loop(m, s) ==
    IF s.item_it >= Len(m.item_) THEN [s EXCEPT !.ub = TRUE]
    ELSE
        LET hit == s.query_it /= s.qwl
                   /\ At(m.item_, s.item_it) = At(m.query_, s.query_it)
            s1 == IF hit
                  THEN [s EXCEPT !.query_it = s.query_it + 1, !.cur = s.cur + 1,
                                 !.any = TRUE]
                  ELSE [s EXCEPT !.longest = Max(s.longest, s.cur), !.cur = 0]
            it1 == s.item_it + 1
        IN  IF hit /\ s1.query_it = Len(m.query_) THEN s1
            ELSE IF it1 >= Len(m.item_) THEN [s1 EXCEPT !.item_it = it1, !.ub = TRUE]
            ELSE IF m.props_[it1 + 1].word_start THEN
                IF s1.wi + 1 >= Len(m.qit_basename_words_)
                THEN [s1 EXCEPT !.item_it = it1, !.ub = TRUE]
                ELSE score_word_prefix_loop(m,
                        [s1 EXCEPT !.item_it = it1,
                                   !.gaps = IF s1.any THEN s1.gaps ELSE s1.gaps + 1,
                                   !.any = FALSE,
                                   !.wi = s1.wi + 1,
                                   !.qwl = At(m.qit_basename_words_, s1.wi + 1)])
            ELSE score_word_prefix_loop(m, [s1 EXCEPT !.item_it = it1])

\* Matcher::score_basename_word_prefix_match
score_basename_word_prefix_match(m) ==
    LET s0 == [ item_it |-> m.item_basename_, query_it |-> m.qit_basename_,
                wi |-> 1, qwl |-> At(m.qit_basename_words_, 1),
                cur |-> 0, any |-> FALSE,
                longest |-> m.basename_longest_submatch_,
                gaps |-> m.basename_word_gaps_, ub |-> FALSE ]
        s == score_word_prefix_loop(m, s0)
    IN  [m EXCEPT !.basename_longest_submatch_ = Max(s.longest, s.cur),
                  !.basename_word_gaps_ = s.gaps,
                  !.unmatched_suffix_len_ = Len(m.item_) - s.item_it - 1,
                  !.ub = s.ub]

\* the loop of score_basename_greedy
RECURSIVE score_greedy_loop(_, _)
score_greedy_loop(m, s) ==
    LET hit == At(m.item_, s.item_it) = At(m.query_, s.query_it)
        s1 == IF hit
              THEN [s EXCEPT !.query_it = s.query_it + 1, !.cur = s.cur + 1]
              ELSE [s EXCEPT !.longest = Max(s.longest, s.cur), !.cur = 0]
    IN  IF hit /\ s1.query_it = Len(m.query_) THEN s1
        ELSE IF s.item_it + 1 = Len(m.item_) THEN [s1 EXCEPT !.item_it = s.item_it + 1]
        ELSE score_greedy_loop(m, [s1 EXCEPT !.item_it = s.item_it + 1])

\* Matcher::score_basename_greedy
score_basename_greedy(m) ==
    IF m.item_basename_ = Len(m.item_) \/ m.qit_basename_ = Len(m.query_) THEN m
    ELSE
        LET s == score_greedy_loop(m,
                    [ item_it |-> m.item_basename_, query_it |-> m.qit_basename_,
                      cur |-> 0, longest |-> m.basename_longest_submatch_ ])
        IN  [m EXCEPT !.basename_longest_submatch_ = Max(s.longest, s.cur),
                      !.unmatched_suffix_len_ = Len(m.item_) - s.item_it - 1]

\* a basename that is always scored greedily
match_score_basename_greedy_only(m) == score_basename_greedy(m)

\* Matcher::match(item), from the end backwards.  Each step takes the
\* matcher as left by the steps before it; the returned verdict is the
\* field matched of the result.
\* lines 146-151: the basename is scored as a word prefix match or greedily
match_score_basename(m) ==
    IF m.prefix_level_ = BASENAME_WORD
    THEN score_basename_word_prefix_match(m)
    ELSE score_basename_greedy(m)

\* lines 138-146: after check_component_match_front
match_basename(m) ==
    IF m.prefix_level_ /= COMPONENT THEN m
    ELSE match_score_basename(check_basename_match_word_prefix(m))

\* lines 127-138: the early return, then make_item_matchcase
match_components(m) ==
    IF Len(m.query_) = 0 \/ Len(m.item_) = 0 THEN m
    ELSE match_basename(check_component_match_front(
             [m EXCEPT !.item_ = make_item_matchcase(m)]))

\* lines 111-122: after check_crfile, the scoring state is reset
match_reset(m) ==
    IF ~m.matched THEN m
    ELSE match_components([m EXCEPT !.prefix_level_ = NONE,
                                    !.whole_basename_match_ = FALSE,
                                    !.basename_longest_submatch_ = 0,
                                    !.basename_match_count_ = 0,
                                    !.basename_word_gaps_ = 0])

\* lines 106-111: after scan has set the uppercase flags
match_scanned(m) ==
    IF ~scan_match(m) THEN [m EXCEPT !.matched = FALSE]
    ELSE match_reset(check_crfile(m))

\* lines 102-106: scan resizes props_ to the decoded item
match_decoded(m) == match_scanned([m EXCEPT !.props_ = ScanProps(m)])

\* Matcher::match(item): the matcher after the call
match(m, item) ==
    match_decoded([m EXCEPT !.item_ = decode(item, m.unicode), !.ub = FALSE])

\* Matcher::mask_to(x, bits)
mask_to(x, bits) == x % (2 ^ bits)

\* a penalty that grows with x
penalty_not_inverted(x, bits) == mask_to(x, bits)

\* Matcher::penalty(x) followed by mask_to: numeric_limits<T>::max() is all
\* ones, so the low bits of max() - x are those of -1 - x
penalty(x, bits) == mask_to(-1 - x, bits)

\* Matcher::score().  The 64-bit value is kept as the tuple of its bit
\* fields, most significant first; the fields occupy disjoint bits, so the
\* unsigned comparison of two scores is the lexicographic comparison of the
\* tuples.
score(m) ==
    << m.prefix_level_,
       IF m.whole_basename_match_ THEN 1 ELSE 0,
       mask_to(m.basename_longest_submatch_, 7),
       mask_to(m.basename_match_count_, 7),
       penalty(m.basename_word_gaps_, 7),
       mask_to(m.crfile_basename_shared_words_, 7),
       penalty(m.crfile_path_distance_, 11),
       penalty(m.unmatched_suffix_len_, 8),
       penalty(Len(m.item_), 14) >>

\* x.score > y.score
RECURSIVE ScoreGreaterFrom(_, _, _)
ScoreGreaterFrom(x, y, i) ==
    IF i > Len(x) THEN FALSE
    ELSE IF x[i] /= y[i] THEN x[i] > y[i]
    ELSE ScoreGreaterFrom(x, y, i + 1)

ScoreGreater(x, y) == ScoreGreaterFrom(x, y, 1)

\* Matcher::get_match_positions_greedy(posns, item_first, item_it, query_it,
\* query_last): the positions it appends
RECURSIVE get_match_positions_greedy(_, _, _, _)
get_match_positions_greedy(m, item_it, query_it, query_last) ==
    IF item_it = Len(m.item_) \/ query_it = query_last THEN <<>>
    ELSE IF At(m.item_, item_it) = At(m.query_, query_it)
         THEN <<item_it>> \o get_match_positions_greedy(m, item_it + 1,
                                                        query_it + 1, query_last)
         ELSE get_match_positions_greedy(m, item_it + 1, query_it, query_last)

\* Matcher::get_match_positions_component_prefix_dirpath: [posns, ub]; ub
\* reports a call of consume_path_component_match_front with its
\* precondition item_rit != item_rlast broken
RECURSIVE get_match_positions_component_prefix_dirpath(_, _, _, _)
get_match_positions_component_prefix_dirpath(m, ib, qb, query_pc_last) ==
    IF qb = 0 THEN [posns |-> <<>>, ub |-> FALSE]
    ELSE IF ib = 0 THEN [posns |-> <<>>, ub |-> TRUE]
    ELSE LET r == consume_path_component_match_front(m, ib, qb)
             here == get_match_positions_greedy(m, r[1], r[2], query_pc_last)
             rest == get_match_positions_component_prefix_dirpath(m, r[1], r[2], r[2])
         IN  [posns |-> here \o rest.posns, ub |-> rest.ub]

\* Matcher::get_match_positions_basename_word_prefix: [posns, ub].  qli is
\* the offset of query_last_it in qit_basename_words_.  The loop checks
\* neither qli against the size of qit_basename_words_ nor query_it against
\* the end of query_.  A comparison that reads past the end of either
\* vector has an unspecified outcome: oob is the set of item offsets at
\* which such a comparison comes out as a match.
RECURSIVE get_match_positions_basename_word_prefix(_, _, _, _, _)
get_match_positions_basename_word_prefix(m, item_it, query_it, qli, oob) ==
    IF item_it = Len(m.item_) THEN [posns |-> <<>>, ub |-> FALSE]
    ELSE
        LET qli1 == IF m.props_[item_it + 1].word_start THEN qli + 1 ELSE qli
            past == qli1 >= Len(m.qit_basename_words_)
            pastq == query_it >= Len(m.query_)
            differs == IF past THEN TRUE
                       ELSE query_it /= At(m.qit_basename_words_, qli1)
            same == IF pastq THEN item_it \in oob
                    ELSE At(m.item_, item_it) = At(m.query_, query_it)
            hit == IF past THEN item_it \in oob /\ same
                   ELSE differs /\ same
            rest == get_match_positions_basename_word_prefix(
                        m, item_it + 1, IF hit THEN query_it + 1 ELSE query_it,
                        qli1, oob)
        IN  [posns |-> (IF hit THEN <<item_it>> ELSE <<>>) \o rest.posns,
             ub |-> past \/ (differs /\ pastq) \/ rest.ub]

\* std::sort of a vector of positions
RECURSIVE SortPositions(_)
SortPositions(s) ==
    IF Len(s) = 0 THEN <<>>
    ELSE LET k == CHOOSE i \in 1..Len(s) : \A j \in 1..Len(s) : s[i] <= s[j]
         IN  <<s[k]>> \o SortPositions([i \in 1..(Len(s) - 1) |->
                                            IF i < k THEN s[i] ELSE s[i + 1]])

\* Matcher::match_positions(): [posns, ub]
match_positions(m, oob) ==
    IF m.prefix_level_ = NONE
    THEN [posns |-> get_match_positions_greedy(m, 0, 0, Len(m.query_)), ub |-> FALSE]
    ELSE
        LET dir == get_match_positions_component_prefix_dirpath(
                       m, m.item_basename_, m.qit_basename_, m.qit_basename_)
            base == IF m.prefix_level_ = BASENAME_WORD
                    THEN get_match_positions_basename_word_prefix(
                             m, m.item_basename_, m.qit_basename_, 0, oob)
                    ELSE [posns |-> get_match_positions_greedy(
                                        m, m.item_basename_, m.qit_basename_,
                                        Len(m.query_)),
                          ub |-> FALSE]
        IN  [posns |-> SortPositions(dir.posns \o base.posns),
             ub |-> dir.ub \/ base.ub]

(***************************************************************************)
(* The Matcher of src/src/matcher.cc: the verdict of Matcher::match        *)
(***************************************************************************)
\* MatcherOpts::QueryPathMode
NORMAL == "NORMAL"
STRICT == "STRICT"
AUTO == "AUTO"

\* path_components_of(path): the components, each with its trailing '/'
RECURSIVE path_components_of(_)
path_components_of(path) ==
    IF \A i \in 1..Len(path) : path[i] /= ChSlash
    THEN IF Len(path) = 0 THEN <<>> ELSE <<path>>
    ELSE LET len == CHOOSE i \in 1..Len(path) :
                        path[i] = ChSlash /\ \A j \in 1..(i - 1) : path[j] /= ChSlash
         IN  <<SubSeq(path, 1, len)>>
             \o path_components_of(SubSeq(path, len + 1, Len(path)))

\* the loop of path_distance_between: the number of leading components
\* that x and y share, counted from common_ancestors on
RECURSIVE common_ancestors_from(_, _, _)
common_ancestors_from(x, y, common_ancestors) ==
    IF common_ancestors < Min(Len(x), Len(y))
       /\ x[common_ancestors + 1] = y[common_ancestors + 1]
    THEN common_ancestors_from(x, y, common_ancestors + 1)
    ELSE common_ancestors

\* a distance that does not look for common ancestors
path_distance_between_sizes(x, y) == Len(x) + Len(y)

\* path_distance_between(x, y) of path_util.cc
path_distance_between(x, y) ==
    Len(x) + Len(y) - (2 * common_ancestors_from(x, y, 0))

\* a value of prefix_score: off, or numeric_limits<CharCount2>::max() - off
LowScore(off) == [max |-> FALSE, off |-> off]
MaxMinus(off) == [max |-> TRUE, off |-> off]

\* what a call of match leaves of the key refinement: whether match_key
\* went into its passes, the decoded key, the offset query_key, the pass
\* that returned, the index i of its last match, and the three fields of
\* the Scorer that match_key assigns.  Before match_key the Scorer has its
\* initial prefix_score (match.h line 47)
NoKey == [refined |-> FALSE, chars |-> <<>>, query_key |-> 0, pass |-> 0, i |-> 0,
          word_index_sum |-> 0, start_matched |-> FALSE,
          prefix_score |-> MaxMinus(0), word_prefix_len |-> 0, unmatched_len |-> 0]

\* Matcher::Matcher(query, opts, strings) of matcher.cc: the fields the
\* verdict and the path distance depend on
OldMatcher(query, is_path, query_path_mode, unicode, cur_file) ==
    LET q == decode(query, unicode)
    IN  [ is_path |-> is_path,
          unicode |-> unicode,
          query_ |-> q,
          cur_file_parts_ |-> path_components_of(cur_file),
          query_key_begin_index_ |->
              IF is_path THEN path_basename(q, 0, Len(q), TRUE) ELSE 0,
          matched |-> FALSE,
          path_distance |-> 0,
          key |-> NoKey,
          require_full_part_ |->
              IF ~is_path THEN FALSE
              ELSE IF query_path_mode = NORMAL THEN FALSE
              ELSE IF query_path_mode = STRICT THEN TRUE
              ELSE \E i \in 1..Len(query) : query[i] = ChSlash,
          is_case_sensitive_ |-> \E i \in 1..Len(q) : is_uppercase(q[i]) ]

\* Matcher::match_char(item, query)
match_char(om, item, query) ==
    (IF ~om.is_case_sensitive_ /\ is_uppercase(item)
     THEN uppercase_to_lowercase(item) ELSE item) = query

\* the inner loop of Matcher::match over one decoded item part, right to
\* left: i characters of the part are still to be visited, r query
\* characters have been consumed from the right; the result is the new r
RECURSIVE old_match_part(_, _, _, _)
old_match_part(om, chars, i, r) ==
    IF i = 0 THEN r
    ELSE IF match_char(om, chars[i], om.query_[Len(om.query_) - r])
         THEN IF r + 1 = Len(om.query_) THEN r + 1
              ELSE old_match_part(om, chars, i - 1, r + 1)
         ELSE old_match_part(om, chars, i - 1, r)

RECURSIVE old_match_parts(_, _, _, _)
\* a loop over the item parts that never discards what a part consumed
old_match_parts_without_rollback(om, item_parts, k, r) ==
    IF k = 0 \/ r = Len(om.query_) THEN r
    ELSE old_match_parts(om, item_parts, k - 1,
             old_match_part(om, decode(item_parts[k], om.unicode),
                            Len(decode(item_parts[k], om.unicode)), r))

\* the loop of Matcher::match over the item parts, right to left: k parts
\* are still to be visited
old_match_parts(om, item_parts, k, r) ==
    IF k = 0 \/ r = Len(om.query_) THEN r
    ELSE LET chars == decode(item_parts[k], om.unicode)
             r1 == old_match_part(om, chars, Len(chars), r)
             r2 == IF om.require_full_part_
                      /\ ~(r1 = Len(om.query_)
                           \/ om.query_[Len(om.query_) - r1] = ChSlash)
                   THEN r ELSE r1
         IN  old_match_parts(om, item_parts, k - 1, r2)

\* Matcher::match(item, ...) of matcher.cc: the returned verdict
old_match(om, item) ==
    LET item_parts == IF om.is_path THEN path_components_of(item) ELSE <<item>>
    IN  IF Len(om.query_) = 0 THEN TRUE
        ELSE old_match_parts(om, item_parts, Len(item_parts), 0) = Len(om.query_)

\* Matcher::match_path: the path_distance of the Scorer of a call of match
\* that returned true; a Scorer starts with 0
old_match_path(om, item) ==
    IF om.is_path
    THEN path_distance_between(om.cur_file_parts_, path_components_of(item))
    ELSE 0

\* the offset query_key that Matcher::match passes to match_key:
\* query_it.base() after the rightmost item part has been matched (lines
\* 136-176), the rollback of the strict mode included
query_key_of(om, item_parts) ==
    LET chars == decode(item_parts[Len(item_parts)], om.unicode)
        r1 == old_match_part(om, chars, Len(chars), 0)
        r2 == IF om.require_full_part_
                 /\ ~(r1 = Len(om.query_)
                      \/ om.query_[Len(om.query_) - r1] = ChSlash)
              THEN 0 ELSE r1
    IN  Len(om.query_) - r2

\* the lambda is_word_prefix of match_key (lines 243-255)
is_word_prefix(om, key, i) ==
    \/ i = 0
    \/ is_alphanumeric(At(key, i), om.unicode)
           /\ ~is_alphanumeric(At(key, i - 1), om.unicode)
    \/ is_uppercase(At(key, i)) /\ ~is_uppercase(At(key, i - 1))

\* the locals of one pass of match_key before the loop (lines 261-267)
PassStart(query_key) ==
    [query_it |-> query_key, word_index |-> 0, word_index_sum |-> 0,
     word_prefix_len |-> 0, start_matched |-> FALSE, at_word_start |-> TRUE,
     word_matched |-> FALSE, i |-> 0, consumed |-> FALSE]

\* one iteration of the loop over the key (lines 269-321) at index i: the
\* locals after it; consumed tells that query_it reached the end of the
\* query, where match_key returns
pass_step(om, key, pass, i, s) ==
    LET wp == is_word_prefix(om, key, i)
        word_index == IF wp THEN s.word_index + 1 ELSE s.word_index
        at_word_start == wp \/ s.at_word_start
        word_matched == ~wp /\ s.word_matched
    IN  IF pass = 0 /\ is_alphanumeric(At(om.query_, s.query_it), om.unicode)
           /\ ~at_word_start
        THEN [s EXCEPT !.word_index = word_index, !.at_word_start = at_word_start,
                       !.word_matched = word_matched]
        ELSE IF match_char(om, At(key, i), At(om.query_, s.query_it))
        THEN [s EXCEPT
                 !.word_index = word_index,
                 !.at_word_start = at_word_start,
                 !.word_prefix_len = IF at_word_start THEN s.word_prefix_len + 1
                                     ELSE s.word_prefix_len,
                 !.word_index_sum = IF word_matched THEN s.word_index_sum
                                    ELSE s.word_index_sum + word_index,
                 !.word_matched = TRUE,
                 !.start_matched = s.start_matched \/ i = 0,
                 !.query_it = s.query_it + 1,
                 !.i = i,
                 !.consumed = (s.query_it + 1 = Len(om.query_))]
        ELSE [s EXCEPT !.word_index = word_index, !.at_word_start = FALSE,
                       !.word_matched = word_matched]

\* one pass of match_key from index i on, s being the locals before the
\* iteration: the locals when the pass returns or runs off the key
RECURSIVE key_pass(_, _, _, _, _)
key_pass(om, key, pass, i, s) ==
    IF s.consumed \/ i = Len(key) THEN s
    ELSE CHOOSE r \in {key_pass(om, key, pass, i + 1, s1) :
                          s1 \in {pass_step(om, key, pass, i, s)}} : TRUE

\* the prefix_score that match_key assigns when pass has consumed the key
\* segment with the locals s (lines 296-311)
prefix_score_of(om, query_key, pass, s) ==
    IF query_key /= om.query_key_begin_index_
    THEN IF s.start_matched THEN MaxMinus(1) ELSE MaxMinus(0)
    ELSE IF s.i + 1 = Len(om.query_) - om.query_key_begin_index_ THEN LowScore(0)
    ELSE IF pass = 0 THEN LowScore(s.word_index_sum)
    ELSE IF s.start_matched THEN MaxMinus(3)
    ELSE MaxMinus(2)

\* what match_key leaves when the given pass returned with the locals s
key_refined(om, key, query_key, pass, s) ==
    [refined |-> TRUE, chars |-> key, query_key |-> query_key, pass |-> pass,
     i |-> s.i, word_index_sum |-> s.word_index_sum,
     start_matched |-> s.start_matched,
     prefix_score |-> prefix_score_of(om, query_key, pass, s),
     word_prefix_len |-> s.word_prefix_len,
     unmatched_len |-> Len(key) - (s.i + 1)]

\* a refinement that only matches greedily
match_key_greedy_only(om, key, query_key, p0, p1) ==
    key_refined(om, key, query_key, 1, p1)

\* the two passes of Matcher::match_key (lines 260-324), p0 and p1 being
\* the locals at the end of pass 0 and of pass 1: the first pass that
\* consumes the key segment returns; when neither does, the Scorer is left
\* as it was
match_key_passes(om, key, query_key, p0, p1) ==
    IF p0.consumed THEN key_refined(om, key, query_key, 0, p0)
    ELSE IF p1.consumed THEN key_refined(om, key, query_key, 1, p1)
    ELSE [NoKey EXCEPT !.chars = key, !.query_key = query_key]

\* Matcher::match_key(key, query_key, scorer, ...) as Matcher::match calls
\* it (lines 177, 198-199) after a successful match of a non-empty query:
\* it returns at once when the key segment is empty
old_match_key(om, item) ==
    LET item_parts == IF om.is_path THEN path_components_of(item) ELSE <<item>>
        key == decode(item_parts[Len(item_parts)], om.unicode)
        query_key == query_key_of(om, item_parts)
    IN  IF query_key = Len(om.query_)
        THEN [NoKey EXCEPT !.chars = key, !.query_key = query_key]
        ELSE match_key_passes(om, key, query_key,
                              key_pass(om, key, 0, 0, PassStart(query_key)),
                              key_pass(om, key, 1, 0, PassStart(query_key)))

(***************************************************************************)
(* for_each_match of src/src/api.h, fed by the thread-safe list source of  *)
(* src/src/python_extension.cc.  An item is its string: match_key and      *)
(* sort_key of StringRefItem (and of CtrlPItem with FullLineMatch) are the *)
(* whole string.                                                           *)
(***************************************************************************)
\* bounds of the model
MaxItems == 3
MaxThreads == 2
MaxLimit == 2
\* the source's batch_size(), scaled down from 512
BatchSize == 2
\* the number of items one Matcher is applied to in SpecMatcher, and the
\* lengths of the queries and items enumerated there
MaxMatches == 2
MaxQueryLen == 2
MaxItemLen == 3
\* the number of Options::set_nr_threads calls before for_each_match
MaxSetterCalls == 2

VARIABLES
    binding,          \* the last Options::set_nr_threads call: [calls, threw, arg, prev]
    query,            \* the query argument
    opts,             \* the Options argument
    list,             \* the candidate list behind the source
    src,              \* the source: [i_, size_, done_, throw_at]
    workers,          \* worker t: [pc, batch, more, matches, matcher,
                      \* has_exception, exception_msg]
    thread_matches,   \* thread_matches[t]
    driver,           \* the calling thread: [pc, i, all_matches, matcher, what]
    sink,             \* the calls of dst so far
    mt,               \* one Matcher applied to a sequence of items
    hist,             \* history: [pulled, scored, fills] (see NoHistory)
    call              \* a call of Matcher::score() on two matchers, or of
                      \* cpsm::match (see NoCall)

vars == <<build, binding, query, opts, list, src, workers, thread_matches, driver,
          sink, mt, hist, call>>

\* no such call is under way
NoCall == [op |-> "none"]


\* StringRefItem::match_key, StringRefItem::sort_key
match_key(item) == item
sort_key(item) == item

\* the Matcher constructed from query and mopts (api.h lines 243-245, 260)
NewMatcher == Matcher(query, opts.crfile, opts.match_crfile, opts.path, opts.unicode)

\* a Matcher constructed without the crfile options
DriverMatcher_without_mopts == Matcher(query, <<>>, TRUE, opts.path, opts.unicode)

\* the Matcher of the emit loop (api.h line 315)
DriverMatcher == NewMatcher

\* a Matcher that does not exist (not yet constructed, or destroyed)
NoMatcher == [exists |-> FALSE]

\* a comparison without the sort_key tiebreak
is_better_by_score_only(x, y) == ScoreGreater(x.score, y.score)

\* Matched<Item>::is_better(x, y)
is_better(x, y) ==
    IF x.score /= y.score THEN ScoreGreater(x.score, y.score)
    ELSE StrLess(sort_key(x.item), sort_key(y.item))

\* a fill whose batch starts at the last item of the batch before
fill_redelivering(s) ==
    LET max == Min(s.i_ + BatchSize, s.size_)
    IN  IF s.done_ THEN [src |-> s, items |-> <<>>, more |-> FALSE, threw |-> FALSE]
        ELSE IF s.throw_at >= s.i_ /\ s.throw_at < max
        THEN [src |-> [s EXCEPT !.i_ = s.throw_at, !.throw_at = -1],
              items |-> <<>>, more |-> FALSE, threw |-> TRUE]
        ELSE [src |-> [s EXCEPT !.i_ = max],
              items |-> SubSeq(list, Max(s.i_, 1), max),
              more |-> max /= s.size_, threw |-> FALSE]

\* PyListCtrlPMatchSource::fill(items), under the lock: the new source
\* state, the items appended, the returned value and whether the call
\* threw instead of returning.  items.emplace_back allocates and can throw
\* std::bad_alloc: throw_at is the index of the list element at which it
\* does, once (-1: never); i_ then stays at that element and the lock is
\* released by the guard's destructor
fill(s) ==
    LET max == Min(s.i_ + BatchSize, s.size_)
    IN  IF s.done_ THEN [src |-> s, items |-> <<>>, more |-> FALSE, threw |-> FALSE]
        ELSE IF s.throw_at >= s.i_ /\ s.throw_at < max
        THEN [src |-> [s EXCEPT !.i_ = s.throw_at, !.throw_at = -1],
              items |-> <<>>, more |-> FALSE, threw |-> TRUE]
        ELSE [src |-> [s EXCEPT !.i_ = max],
              items |-> SubSeq(list, s.i_ + 1, max),
              more |-> max /= s.size_, threw |-> FALSE]

RemoveAt(seq, k) ==
    [i \in 1..(Len(seq) - 1) |-> IF i < k THEN seq[i] ELSE seq[i + 1]]

\* a heap with the best element at the top
heap_top_best(matches) ==
    {k \in 1..Len(matches) :
        \A j \in 1..Len(matches) : ~is_better(matches[j], matches[k])}

\* the indices std::pop_heap may move to the back: the top of a heap built
\* with the comparator is_better is an element that is better than no other
heap_top(matches) ==
    {k \in 1..Len(matches) :
        \A j \in 1..Len(matches) : ~is_better(matches[k], matches[j])}

\* every arrangement of the elements
sort_any_order(matches) ==
    {[i \in 1..Len(matches) |-> matches[p[i]]] : p \in Permutations(1..Len(matches))}

\* the results std::sort with the comparator is_better may produce: the
\* order of equivalent elements is unspecified
sort(matches) ==
    {s \in {[i \in 1..Len(matches) |-> matches[p[i]]] :
                p \in Permutations(1..Len(matches))} :
        \A i, j \in 1..Len(s) : i < j => ~is_better(s[j], s[i])}

\* a limit that keeps the end of the sorted vector
sort_limit_keeping_the_end(matches, limit) ==
    IF limit /= 0 /\ limit < Len(matches)
    THEN {SubSeq(s, Len(matches) - limit + 1, Len(matches)) : s \in sort(matches)}
    ELSE sort(matches)

\* sort_limit(vec, limit) of match.h, and the same steps in api.h (lines
\* 304-311): partial_sort leaves the limit best elements sorted at the
\* front and resize drops the rest
sort_limit(matches, limit) ==
    IF limit /= 0 /\ limit < Len(matches)
    THEN {SubSeq(s, 1, limit) : s \in sort(matches)}
    ELSE sort(matches)

\* the sort-and-limit step of for_each_match
sort_and_limit(matches) == sort_limit(matches, opts.limit)

\* the candidates and queries of the pipeline model: "", "a/", "a/b", "a__b",
\* "a_b_" and "", "ab"
Pool == { <<>>, <<97, 47>>, <<97, 47, 98>>, <<97, 95, 95, 98>>, <<97, 95, 98, 95>> }
Queries == { <<>>, <<97, 98>> }
CrFiles == { <<>>, <<97, 47, 98>> }

IdleWorker ==
    [pc |-> "idle", batch |-> <<>>, more |-> FALSE, matches |-> <<>>,
     matcher |-> NoMatcher, has_exception |-> FALSE, exception_msg |-> ""]

\* no call of Options::set_nr_threads yet
NoBinding == [calls |-> 0, threw |-> FALSE, arg |-> 1, prev |-> 1]

\* the indices of the list at which the source's emplace_back may fail
ThrowPoints == {-1} \cup (IF Len(list) > BatchSize THEN {BatchSize} ELSE {})

\* the history of a call of for_each_match, which the program does not
\* keep: pulled[t] holds the list indices of the items in worker t's batch,
\* scored[i] the workers that passed list element i to matcher.match, in
\* order, fills[t] tells whether worker t's call of src.fill has returned
\* yet, what the last such call returned and how many items it appended,
\* and seen[t] holds every entry worker t has appended to its matches
\* vector, in order
NoFill == [called |-> FALSE, more |-> TRUE, appended |-> 0]
NoHistory == [pulled |-> <<>>, scored |-> <<>>, fills |-> <<>>, seen |-> <<>>]

IdleHarness == [gen |-> "none", n |-> 0, matcher |-> NoMatcher, om |-> NoMatcher, last |-> <<>>]

\* the state when the caller has constructed the Options, the query and the
\* source; nr_threads has its default (api.h line 45) and is still to be set.
\* set_unicode stores its argument and returns (api.h lines 92-95).  Unicode
\* is requested here in the build without ICU; the decoder of the build with
\* ICU is exercised in SpecMatcher
Init ==
    /\ binding = NoBinding
    /\ query \in Queries
    /\ opts \in [crfile : CrFiles, limit : 0..MaxLimit, match_crfile : BOOLEAN,
                 nr_threads : {1}, path : {TRUE}, unicode : BOOLEAN,
                 want_match_info : BOOLEAN]
    /\ build = [char_signed |-> TRUE, icu |-> ~opts.unicode]
    /\ list \in UNION {[1..n -> Pool] : n \in 0..MaxItems}
    /\ \E at \in ThrowPoints :
           src = [i_ |-> 0, size_ |-> Len(list), done_ |-> FALSE, throw_at |-> at]
    /\ workers = <<>>
    /\ thread_matches = <<>>
    /\ driver = [pc |-> "options", i |-> 0, all_matches |-> <<>>,
                 matcher |-> NoMatcher, what |-> ""]
    /\ sink = <<>>
    /\ mt = IdleHarness
    /\ hist = NoHistory
    /\ call = NoCall

\* a setter that stores whatever it is given
set_nr_threads_unchecked(o, nr_threads) ==
    [opts |-> [o EXCEPT !.nr_threads = nr_threads], threw |-> FALSE]

\* Options::set_nr_threads(nr_threads): the Options after the call and
\* whether the call threw
set_nr_threads(o, nr_threads) ==
    IF nr_threads < 1 THEN [opts |-> o, threw |-> TRUE]
    ELSE [opts |-> [o EXCEPT !.nr_threads = nr_threads], threw |-> FALSE]

\* the caller calls opts.set_nr_threads(n) and catches what it throws
SetNrThreads(n) ==
    /\ driver.pc = "options"
    /\ binding.calls < MaxSetterCalls
    /\ opts' = set_nr_threads(opts, n).opts
    /\ binding' = [calls |-> binding.calls + 1,
                   threw |-> set_nr_threads(opts, n).threw,
                   arg |-> n, prev |-> opts.nr_threads]
    /\ UNCHANGED <<call, hist, build, query, list, src, workers, thread_matches, driver, sink, mt>>

\* the caller calls for_each_match (api.h lines 241-249): thread_matches
\* gets nr_threads empty lists; without threads nothing is spawned or joined
Start ==
    /\ driver.pc = "options"
    /\ binding' = NoBinding
    /\ workers' = [t \in 1..opts.nr_threads |-> IdleWorker]
    /\ thread_matches' = [t \in 1..opts.nr_threads |-> <<>>]
    /\ driver' = [driver EXCEPT !.pc = IF opts.nr_threads = 0 THEN "combine"
                                       ELSE "spawn"]
    /\ hist' = [pulled |-> [t \in 1..opts.nr_threads |-> <<>>],
                scored |-> [i \in 1..Len(list) |-> <<>>],
                fills |-> [t \in 1..opts.nr_threads |-> NoFill],
                seen |-> [t \in 1..opts.nr_threads |-> <<>>]]
    /\ UNCHANGED <<call, build, query, opts, list, src, sink, mt>>

\* Utf8StringTraits::unimplemented() is what every member of
\* Utf8StringTraits calls in a build without ICU (str_util.h lines 239-260);
\* decode<StringTraits>(query) in the constructor of Matcher calls
\* for_each_char, for the empty query too
unimplemented == opts.unicode /\ ~build.icu

\* the thread function up to the do-while loop (api.h lines 253-261): the
\* constructor of Matcher throws Error in a build without Unicode support,
\* and Thread::run catches it
thread_started ==
    IF unimplemented
    THEN [IdleWorker EXCEPT !.pc = "done", !.has_exception = TRUE,
                            !.exception_msg = "cpsm built without Unicode support"]
    ELSE [IdleWorker EXCEPT !.pc = "fill", !.matcher = NewMatcher]

\* the driver starts thread i (api.h lines 251-283); the thread constructs
\* its Matcher and enters the do-while loop
Spawn ==
    /\ driver.pc = "spawn"
    /\ LET t == driver.i + 1
       IN  /\ workers' = [workers EXCEPT ![t] = thread_started]
           /\ driver' = [driver EXCEPT !.i = IF t = opts.nr_threads THEN 0 ELSE t,
                                       !.pc = IF t = opts.nr_threads THEN "join"
                                              ELSE "spawn"]
    /\ UNCHANGED <<call, hist, build, binding, query, opts, list, src, thread_matches, sink, mt>>

\* a loop that ends after its first batch
AfterBatch_once(more) == "publish"

\* the loop condition after a batch has been processed (api.h line 280)
AfterBatch(more) == IF more THEN "fill" ELSE "publish"

\* Thread::run catches what the thread function throws and stores the
\* message, ex.what() (par_util.h lines 68-76); the function's locals are
\* destroyed and the thread ends without having assigned thread_matches[i]
thread_caught(w) ==
    [IdleWorker EXCEPT !.pc = "done", !.has_exception = TRUE,
                       !.exception_msg = "std::bad_alloc"]

\* a loop that tests more before it processes the batch
after_fill_while_more(items, more) ==
    IF items = <<>> \/ ~more THEN AfterBatch(more) ELSE "match"

\* a worker that waits for candidates when the source gave it none
after_fill_waiting(items, more) ==
    IF items = <<>> THEN "wait" ELSE "match"

\* the position of a worker after src.fill(batch) returned more (api.h
\* lines 264-265): the for loop runs over what the batch holds, whatever
\* more is, and an empty batch takes it to the loop condition at once
after_fill(items, more) ==
    IF items = <<>> THEN AfterBatch(more) ELSE "match"

\* worker t calls src.fill(batch) (api.h line 264); an empty batch is
\* processed at once
WorkerFill(t) ==
    /\ workers[t].pc = "fill"
    /\ LET f == fill(src)
       IN  /\ src' = f.src
           /\ workers' = [workers EXCEPT ![t] =
                  IF f.threw THEN thread_caught(workers[t])
                  ELSE [workers[t] EXCEPT !.batch = workers[t].batch \o f.items,
                                          !.more = f.more,
                                          !.pc = after_fill(f.items, f.more)]]
           /\ hist' = IF f.threw THEN hist
                      ELSE [hist EXCEPT
                               !.pulled[t] = hist.pulled[t] \o
                                   [k \in 1..Len(f.items) |->
                                       f.src.i_ - Len(f.items) + k],
                               !.fills[t] = [called |-> TRUE, more |-> f.more,
                                             appended |-> Len(f.items)]]
    /\ UNCHANGED <<call, build, binding, query, opts, list, thread_matches, driver, sink, mt>>

\* a worker that keeps every match
keep_matches_unlimited(pushed) == {pushed}

\* the matches vector of a worker after emplace_back, push_heap and, above
\* the limit, pop_heap and pop_back (api.h lines 267-276)
keep_matches(pushed) ==
    IF opts.limit /= 0 /\ Len(pushed) > opts.limit
    THEN {RemoveAt(pushed, k) : k \in heap_top(pushed)}
    ELSE {pushed}

\* the body of the loop over the batch for one item, m being the worker's
\* Matcher after matcher.match(item.match_key())
worker_matched(t, item, m) ==
    \E kept \in IF m.matched
                THEN keep_matches(Append(workers[t].matches,
                                         [score |-> score(m), item |-> item]))
                ELSE {workers[t].matches} :
        /\ workers' = [workers EXCEPT
                          ![t].matcher = m,
                          ![t].matches = kept,
                          ![t].batch = Tail(workers[t].batch),
                          ![t].pc = IF Len(workers[t].batch) = 1
                                    THEN AfterBatch(workers[t].more) ELSE "match"]
        /\ hist' = [hist EXCEPT
                       !.scored[Head(hist.pulled[t])] =
                           Append(hist.scored[Head(hist.pulled[t])], t),
                       !.pulled[t] = Tail(hist.pulled[t]),
                       !.seen[t] = IF m.matched
                                   THEN Append(hist.seen[t],
                                               [score |-> score(m), item |-> item])
                                   ELSE hist.seen[t]]

\* worker t matches the next item of its batch (api.h lines 265-278); after
\* the last one it clears the batch and tests the loop condition
WorkerMatch(t) ==
    /\ workers[t].pc = "match"
    /\ worker_matched(t, Head(workers[t].batch),
                      match(workers[t].matcher, match_key(Head(workers[t].batch))))
    /\ UNCHANGED <<call, build, binding, query, opts, list, src, thread_matches, driver, sink, mt>>

\* worker t moves its matches to thread_matches[t] and ends (api.h line 281)
WorkerPublish(t) ==
    /\ workers[t].pc = "publish"
    /\ thread_matches' = [thread_matches EXCEPT ![t] = workers[t].matches]
    /\ workers' = [workers EXCEPT ![t] = [IdleWorker EXCEPT !.pc = "done"]]
    /\ UNCHANGED <<call, hist, build, binding, query, opts, list, src, driver, sink, mt>>

\* a join loop that does not look at has_exception
after_join_ignoring_exception(has_exception) ==
    IF driver.i + 1 = opts.nr_threads THEN "combine" ELSE "join"

\* the position of the driver after thread.join() returned for thread i
\* (api.h lines 289-293): throw Error leaves the loop
after_join(has_exception) ==
    IF has_exception THEN "unwind"
    ELSE IF driver.i + 1 = opts.nr_threads THEN "combine" ELSE "join"

\* a join that returns while the thread is running
join_without_waiting(w) == TRUE

\* the condition under which thread.join() returns (par_util.h line 58):
\* the thread function has ended
join(w) == w.pc = "done"

\* the driver joins thread i (api.h lines 287-294)
Join ==
    /\ driver.pc = "join"
    /\ join(workers[driver.i + 1])
    /\ driver' = [driver EXCEPT
                     !.i = IF driver.i + 1 = opts.nr_threads THEN 0
                           ELSE driver.i + 1,
                     !.pc = after_join(workers[driver.i + 1].has_exception),
                     !.what = workers[driver.i + 1].exception_msg]
    /\ UNCHANGED <<call, hist, build, binding, query, opts, list, src, workers, thread_matches, sink, mt>>

\* an unwinding that does not wait for the threads
unwound_at_once(w) == TRUE

\* the condition under which the destruction of the vector threads ends:
\* ~Thread joins every thread that is still joinable (par_util.h lines
\* 43-47)
unwound(w) == \A t \in DOMAIN w : w[t].pc = "done"

\* the exception thrown in the join loop leaves for_each_match: the locals
\* are destroyed, threads before thread_matches, and the caller gets the
\* Error
Unwind ==
    /\ driver.pc = "unwind"
    /\ unwound(workers)
    /\ driver' = [driver EXCEPT !.pc = "error"]
    /\ UNCHANGED <<call, hist, build, binding, query, opts, list, src, workers, thread_matches,
                   sink, mt>>

RECURSIVE Concat(_, _)
Concat(f, n) == IF n = 0 THEN <<>> ELSE Concat(f, n - 1) \o f[n]

\* the driver combines the per-thread lists, sorts and limits them (api.h
\* lines 297-311) and constructs the Matcher of the emit loop (line 315);
\* moving a string_ref copies it, so the per-thread lists keep their values
Combine ==
    /\ driver.pc = "combine"
    /\ \E sorted \in sort_and_limit(Concat(thread_matches, opts.nr_threads)) :
           driver' = [driver EXCEPT
                         !.all_matches = sorted,
                         !.i = 0,
                         !.pc = IF opts.want_match_info /\ unimplemented
                                THEN "error"
                                ELSE IF sorted = <<>> THEN "done" ELSE "emit",
                         !.what = IF opts.want_match_info /\ unimplemented
                                  THEN "cpsm built without Unicode support"
                                  ELSE driver.what,
                         !.matcher = IF opts.want_match_info /\ ~unimplemented
                                     THEN DriverMatcher ELSE NoMatcher]
    /\ UNCHANGED <<call, hist, build, binding, query, opts, list, src, workers, thread_matches, sink, mt>>

\* the outcomes of match_positions() on matcher m
positions_choice(m, defined) ==
    IF ~defined.ub THEN {defined}
    ELSE {match_positions(m, oob) : oob \in SUBSET (0..(Len(m.item_) - 1))}

positions_of(m) == positions_choice(m, match_positions(m, {}))

\* the position of the driver after the match at index i was emitted
AfterEmit == IF driver.i + 1 = Len(driver.all_matches) THEN "done" ELSE "emit"

\* one iteration of the emit loop with match info, m being the driver's
\* Matcher after the re-match: a failed re-match throws, otherwise dst is
\* called and reads the match positions (python_extension.cc line 358)
emit_rematched(mtch, m) ==
    IF ~m.matched
    THEN /\ driver' = [driver EXCEPT !.pc = "error", !.matcher = m,
                                     !.what = "failed to re-match known match"]
         /\ sink' = sink
    ELSE /\ driver' = [driver EXCEPT !.pc = AfterEmit, !.i = driver.i + 1,
                                     !.matcher = m]
         /\ \E r \in positions_of(m) :
                sink' = Append(sink,
                    [item |-> mtch.item, score |-> mtch.score,
                     info |-> TRUE, rescore |-> score(m),
                     posns |-> r.posns, ub |-> r.ub])

\* the driver emits the next match (api.h lines 314-328)
Emit ==
    /\ driver.pc = "emit"
    /\ IF opts.want_match_info
       THEN emit_rematched(driver.all_matches[driver.i + 1],
                match(driver.matcher,
                      match_key(driver.all_matches[driver.i + 1].item)))
       ELSE /\ driver' = [driver EXCEPT !.pc = AfterEmit, !.i = driver.i + 1]
            /\ sink' = Append(sink,
                   [item |-> driver.all_matches[driver.i + 1].item,
                    score |-> driver.all_matches[driver.i + 1].score,
                    info |-> FALSE, rescore |-> <<>>,
                    posns |-> <<>>, ub |-> FALSE])
    /\ UNCHANGED <<call, hist, build, binding, query, opts, list, src, workers, thread_matches, mt>>

Next ==
    \/ \E n \in 0..MaxThreads : SetNrThreads(n)
    \/ Start
    \/ Spawn
    \/ \E t \in DOMAIN workers : WorkerFill(t)
    \/ \E t \in DOMAIN workers : WorkerMatch(t)
    \/ \E t \in DOMAIN workers : WorkerPublish(t)
    \/ Join
    \/ Unwind
    \/ Combine
    \/ Emit

Spec == Init /\ [][Next]_vars

\* the calls of for_each_match whose termination is checked: the options
\* that do not bear on the control flow are fixed
LivePool == { <<>>, <<97, 47, 98>>, <<97, 95, 95, 98>> }

InitLive ==
    /\ Init
    /\ opts.crfile = <<>>
    /\ ~opts.match_crfile
    /\ opts.limit <= 1
    /\ \A i \in 1..Len(list) : list[i] \in LivePool

\* the steps of worker thread t
WorkerStep(t) ==
    /\ t \in DOMAIN workers
    /\ WorkerFill(t) \/ WorkerMatch(t) \/ WorkerPublish(t)

\* worker thread t has a step to take: this is ENABLED <<WorkerStep(t)>>_vars,
\* since fill, the loop body and the move to thread_matches all return and
\* each changes the worker's position
Runnable(t) == t \in DOMAIN workers /\ workers[t].pc \in {"fill", "match", "publish"}

\* the steps of the calling thread other than the emit loop: it calls
\* for_each_match once the options are set (python_extension.cc lines
\* 329-350) and goes through it
DriverStep == Start \/ Spawn \/ Join \/ Unwind \/ Combine

\* every thread that can run eventually runs: std::thread gives each
\* worker its own thread, and std::mutex hands the source's lock to a
\* waiting thread once it is free.  For the steps that call matcher.match
\* weak fairness is written out, []<>~ENABLED <<A>>_vars \/ []<><<A>>_vars,
\* with the enabling condition given as a state predicate
Fairness ==
    /\ WF_vars(DriverStep)
    /\ ([]<>(driver.pc /= "emit")) \/ ([]<><<Emit>>_vars)
    /\ \A t \in 1..MaxThreads : ([]<>(~Runnable(t))) \/ ([]<><<WorkerStep(t)>>_vars)

LiveSpec == InitLive /\ [][Next]_vars /\ Fairness

(***************************************************************************)
(* One Matcher applied to a sequence of items: the Matcher of matcher.h    *)
(* (gen = "new"), which keeps state between items, or the Matcher of       *)
(* matcher.cc (gen = "old"), whose match is const.                         *)
(***************************************************************************)
\* 'a', 'A' and '/'
Alphabet == {97, 65, 47}

Strings(n) == UNION {[1..k -> Alphabet] : k \in 0..n}

\* "foo", "Foo", "FOO", "a__b", "a_b_" and the UTF-8 encoding of "a日b"
ExtraItems ==
    { <<102, 111, 111>>, <<70, 111, 111>>, <<70, 79, 79>>,
      <<97, 95, 95, 98>>, <<97, 95, 98, 95>>, <<97, 230, 151, 165, 98>> }

\* "foo", "Foo" and "ab"
ExtraQueries == { <<102, 111, 111>>, <<70, 111, 111>>, <<97, 98>> }

\* the query and the items of test_match_order (matcher_test.cc lines
\* 109-112)
Fb == <<102, 98>>
Barfoo == <<98, 97, 114, 102, 111, 111>>
Fbar == <<102, 98, 97, 114>>
FooBar == <<102, 111, 111, 47, 98, 97, 114>>
FooFbar == <<102, 111, 111, 47, 102, 98, 97, 114>>
FooFoobar == <<102, 111, 111, 47, 102, 111, 111, 98, 97, 114>>
FooFoo_bar == <<102, 111, 111, 47, 102, 111, 111, 95, 98, 97, 114>>
FooFoo_bar_test ==
    <<102, 111, 111, 47, 102, 111, 111, 95, 98, 97, 114, 95, 116, 101, 115, 116>>
FooFoo_test_bar ==
    <<102, 111, 111, 47, 102, 111, 111, 95, 116, 101, 115, 116, 95, 98, 97, 114>>
FooFooBarCamel == <<102, 111, 111, 47, 70, 111, 111, 66, 97, 114>>
FooAbar == <<102, 111, 111, 47, 97, 98, 97, 114>>
FooQux == <<102, 111, 111, 47, 113, 117, 120>>
FoobAr == <<102, 111, 111, 98, 47, 97, 114>>
FbItems ==
    { Barfoo, Fbar, FooBar, FooFbar, FooFoobar, FooFoo_bar, FooFoo_bar_test,
      FooFoo_test_bar, FooFooBarCamel, FooAbar, FooQux, FoobAr }

\* "src/mat" and the candidates "src/matcher.cc", "test/src/match.h",
\* "src_old/matcher.cc" and "sr/c/mat"
SrcMat == <<115, 114, 99, 47, 109, 97, 116>>
SrcMatcherCc == <<115, 114, 99, 47, 109, 97, 116, 99, 104, 101, 114, 46, 99, 99>>
TestSrcMatchH ==
    <<116, 101, 115, 116, 47, 115, 114, 99, 47, 109, 97, 116, 99, 104, 46, 104>>
SrcOldMatcherCc ==
    <<115, 114, 99, 95, 111, 108, 100, 47, 109, 97, 116, 99, 104, 101, 114, 46, 99, 99>>
SrCMat == <<115, 114, 47, 99, 47, 109, 97, 116>>
SrcMatItems == { SrcMatcherCc, TestSrcMatchH, SrcOldMatcherCc, SrCMat }

\* a query of one byte that is not UTF-8, and candidates with bytes that
\* are not UTF-8: a continuation byte, 0xff, an overlong encoding, 0xff
\* between two letters; and "\xc3\xa9", which is U+00E9
Byte80 == <<128>>
IllFormedItems ==
    { <<128>>, <<255>>, <<192, 128>>, <<97, 255, 98>>, <<195, 169>> }

\* the width of the field that Matcher::score() gives unmatched_suffix_len_
UnmatchedSuffixBits == 8

\* the query "q" and the candidates "q", "qb" and "a/q"; the matchers are
\* run on these and on each of them with one more "b"
LongQuery == <<113>>
LongBases == { <<113>>, <<113, 98>>, <<97, 47, 113>> }
LongItems == LongBases \cup {Append(item, 98) : item \in LongBases}

ItemsM == Strings(MaxItemLen) \cup ExtraItems
QueriesM == Strings(MaxQueryLen) \cup ExtraQueries \cup {Fb, Byte80, LongQuery}

\* the items a Matcher for query q is applied to
ItemsFor(q) ==
    IF q = Fb THEN FbItems
    ELSE IF q = SrcMat THEN SrcMatItems
    ELSE IF q = Byte80 THEN IllFormedItems
    ELSE IF q = LongQuery THEN LongItems
    ELSE ItemsM
\* "", "a" and "a/a"
CrFilesM == { <<>>, <<97>>, <<97, 47, 97>> }

InitM ==
    /\ binding = NoBinding
    /\ query \in QueriesM \cup {SrcMat}
    /\ opts \in [crfile : CrFilesM, limit : {0}, match_crfile : BOOLEAN,
                 nr_threads : {1}, path : {TRUE}, unicode : BOOLEAN,
                 want_match_info : {TRUE}]
    /\ list = <<>>
    /\ build \in [char_signed : IF opts.unicode THEN BOOLEAN ELSE {TRUE},
                  icu : {TRUE}]
    /\ src = [i_ |-> 0, size_ |-> 0, done_ |-> FALSE, throw_at |-> -1]
    /\ workers = [t \in 1..1 |-> IdleWorker]
    /\ thread_matches = [t \in 1..1 |-> <<>>]
    /\ driver = [pc |-> "idle", i |-> 0, all_matches |-> <<>>,
                 matcher |-> NoMatcher, what |-> ""]
    /\ sink = <<>>
    /\ hist = NoHistory
    /\ call = NoCall
    /\ \/ /\ query /= SrcMat
          /\ mt = [IdleHarness EXCEPT !.gen = "new", !.matcher = NewMatcher]
       \/ /\ ~opts.match_crfile
          /\ \E mode \in IF query = SrcMat THEN {STRICT, AUTO}
                          ELSE {NORMAL, STRICT, AUTO} :
                 mt = [IdleHarness EXCEPT
                          !.gen = "old",
                          !.om = OldMatcher(query, opts.path, mode, opts.unicode,
                                            opts.crfile)]

\* matcher.match(item) on the Matcher of matcher.h
MatchItem(item) ==
    /\ mt.gen = "new"
    /\ mt.n < MaxMatches
    /\ mt' = [mt EXCEPT !.n = mt.n + 1,
                        !.matcher = match(mt.matcher, item),
                        !.last = item]
    /\ UNCHANGED <<call, hist, build, binding, query, opts, list, src, workers, thread_matches, driver, sink>>

\* matcher.match(item, m) on the Matcher of matcher.cc
OldMatchItem(item) ==
    /\ mt.gen = "old"
    /\ mt.n < MaxMatches
    /\ mt' = [mt EXCEPT !.n = mt.n + 1,
                        !.om.matched = old_match(mt.om, item),
                        !.om.path_distance = IF old_match(mt.om, item)
                                             THEN old_match_path(mt.om, item)
                                             ELSE 0,
                        !.om.key = IF old_match(mt.om, item) /\ mt.om.query_ /= <<>>
                                   THEN old_match_key(mt.om, item)
                                   ELSE NoKey,
                        !.last = item]
    /\ UNCHANGED <<call, hist, build, binding, query, opts, list, src, workers, thread_matches, driver, sink>>

NextM ==
    \/ \E item \in ItemsFor(query) : MatchItem(item)
    \/ \E item \in ItemsFor(query) : OldMatchItem(item)

SpecMatcher == InitM /\ [][NextM]_vars

(***************************************************************************)
(* Matcher::score() on candidates of any length.  match runs over a short  *)
(* candidate; Lengthened gives the Matcher that match leaves for the same  *)
(* candidate followed by more characters after the end of its match.       *)
(***************************************************************************)
\* the Matcher after match(item followed by k times "b"), m being the
\* Matcher after match(item) on a new Matcher, when the basename of item
\* has a character after the last matched one and ends with a lowercase
\* letter: scan resizes props_ (lines 223-235), check_crfile sets
\* alphanumeric in the basename (lines 300-312), and
\* score_basename_word_prefix_match ends at the last matched character
\* (line 522)
Lengthened(m, k) ==
    [m EXCEPT !.item_ = m.item_ \o [i \in 1..k |-> 98],
              !.props_ = m.props_ \o [i \in 1..k |->
                            [ZeroProps EXCEPT !.alphanumeric = TRUE]],
              !.unmatched_suffix_len_ = m.unmatched_suffix_len_ + k]

\* the numbers of characters added: none, one, and those around the least
\* unmatched_suffix_len_ that does not fit its field
Paddings ==
    {0, 1, 2 ^ UnmatchedSuffixBits - 2, 2 ^ UnmatchedSuffixBits - 1,
     2 ^ UnmatchedSuffixBits}

\* "qb" and "a/qb"
ScoreBases == { <<113, 98>>, <<97, 47, 113, 98>> }

\* the Matchers after match on the candidates of LongQuery
ScoredMatchers ==
    { Lengthened(match(NewMatcher, item), k) : item \in ScoreBases, k \in Paddings }

\* two candidates have been matched and their scores are to be compared
InitScore ==
    /\ binding = NoBinding
    /\ query = LongQuery
    /\ opts \in [crfile : CrFilesM, limit : {0}, match_crfile : {TRUE},
                 nr_threads : {1}, path : {TRUE}, unicode : {FALSE},
                 want_match_info : {FALSE}]
    /\ list = <<>>
    /\ build = [char_signed |-> TRUE, icu |-> TRUE]
    /\ src = [i_ |-> 0, size_ |-> 0, done_ |-> FALSE, throw_at |-> -1]
    /\ workers = <<>>
    /\ thread_matches = <<>>
    /\ driver = [pc |-> "idle", i |-> 0, all_matches |-> <<>>,
                 matcher |-> NoMatcher, what |-> ""]
    /\ sink = <<>>
    /\ mt = IdleHarness
    /\ hist = NoHistory
    /\ \E x, y \in ScoredMatchers :
           call = [op |-> "score", x |-> x, y |-> y, compared |-> FALSE,
                   greater |-> FALSE]

\* x.score() > y.score(), as is_better compares them
CompareScores ==
    /\ call.op = "score"
    /\ ~call.compared
    /\ call' = [call EXCEPT !.compared = TRUE,
                            !.greater = ScoreGreater(score(call.x), score(call.y))]
    /\ UNCHANGED <<hist, build, binding, query, opts, list, src, workers,
                   thread_matches, driver, sink, mt>>

SpecScore == InitScore /\ [][CompareScores]_vars

(***************************************************************************)
(* cpsm::match of cpsm.h: the division of the items among the threads      *)
(***************************************************************************)
\* the greatest items.size(), and the greatest value of
\* Thread::hardware_concurrency() and of max_concurrency
MaxRangeItems == 7
MaxConcurrency == 4

\* the outcomes of items.size() / nr_threads.  Division by zero is
\* undefined: the build either traps or goes on with a quotient of 0
DivideItems(size, nr_threads) ==
    IF nr_threads /= 0 THEN {[trapped |-> FALSE, quotient |-> size \div nr_threads]}
    ELSE {[trapped |-> TRUE, quotient |-> 0], [trapped |-> FALSE, quotient |-> 0]}

\* lines 40-46: the number of threads
nr_threads_of(size, hardware_concurrency, max_concurrency) ==
    LET capped == IF hardware_concurrency > size THEN size ELSE hardware_concurrency
    IN  IF max_concurrency /= 0 /\ capped > max_concurrency
        THEN max_concurrency ELSE capped

\* cpsm::match is called with size items on a machine that reports
\* hardware_concurrency
InitRanges ==
    /\ binding = NoBinding
    /\ query = <<>>
    /\ opts = [crfile |-> <<>>, limit |-> 0, match_crfile |-> FALSE,
               nr_threads |-> 1, path |-> TRUE, unicode |-> FALSE,
               want_match_info |-> FALSE]
    /\ list = <<>>
    /\ build = [char_signed |-> TRUE, icu |-> TRUE]
    /\ src = [i_ |-> 0, size_ |-> 0, done_ |-> FALSE, throw_at |-> -1]
    /\ workers = <<>>
    /\ thread_matches = <<>>
    /\ driver = [pc |-> "idle", i |-> 0, all_matches |-> <<>>,
                 matcher |-> NoMatcher, what |-> ""]
    /\ sink = <<>>
    /\ mt = IdleHarness
    /\ hist = NoHistory
    /\ \E size \in 0..MaxRangeItems, hc \in 0..MaxConcurrency,
          mc \in 0..MaxConcurrency :
           call = [op |-> "match", pc |-> "called", size |-> size,
                   hardware_concurrency |-> hc, max_concurrency |-> mc,
                   nr_threads |-> 0, items_per_thread |-> 0,
                   first_thread_extra_items |-> 0, start_item |-> 0,
                   end_item |-> 0, i |-> 0, ranges |-> <<>>]

\* lines 40-53: the locals before the loop
Divide ==
    /\ call.op = "match"
    /\ call.pc = "called"
    /\ LET nr == nr_threads_of(call.size, call.hardware_concurrency,
                               call.max_concurrency)
       IN  \E d \in DivideItems(call.size, nr) :
               LET extra == IF nr /= 0 THEN call.size % nr ELSE 0
               IN  call' = [call EXCEPT
                               !.pc = IF d.trapped THEN "trapped" ELSE "spawn",
                               !.nr_threads = nr,
                               !.items_per_thread = d.quotient,
                               !.first_thread_extra_items = extra,
                               !.end_item = d.quotient + extra]
    /\ UNCHANGED <<hist, build, binding, query, opts, list, src, workers,
                   thread_matches, driver, sink, mt>>

\* lines 54-69: one iteration of the loop that starts the threads; the
\* thread gets the items [start_item, end_item)
SpawnRange ==
    /\ call.op = "match"
    /\ call.pc = "spawn"
    /\ call.i < call.nr_threads
    /\ call' = [call EXCEPT
                   !.ranges = Append(call.ranges,
                                     [start_item |-> call.start_item,
                                      end_item |-> call.end_item]),
                   !.start_item = call.end_item,
                   !.end_item = call.end_item + call.items_per_thread,
                   !.i = call.i + 1]
    /\ UNCHANGED <<hist, build, binding, query, opts, list, src, workers,
                   thread_matches, driver, sink, mt>>

\* lines 71-94: the threads are joined and the matches returned
ReturnMatches ==
    /\ call.op = "match"
    /\ call.pc = "spawn"
    /\ call.i = call.nr_threads
    /\ call' = [call EXCEPT !.pc = "returned"]
    /\ UNCHANGED <<hist, build, binding, query, opts, list, src, workers,
                   thread_matches, driver, sink, mt>>

NextRanges == Divide \/ SpawnRange \/ ReturnMatches

SpecRanges == InitRanges /\ [][NextRanges]_vars

(***************************************************************************)
(* Properties of the pipeline (specification Spec)                         *)
(***************************************************************************)
\* the items passed to the sink so far, in order
Emitted == [i \in 1..Len(sink) |-> sink[i].item]

\* the verdict and the score a newly constructed Matcher gives an item
FreshMatched(item) == match(NewMatcher, match_key(item)).matched
FreshScore(item) == score(match(NewMatcher, match_key(item)))

\* the rank order on items: higher score first, then lower sort_key
RankedBefore(x, y) ==
    \/ ScoreGreater(FreshScore(x), FreshScore(y))
    \/ FreshScore(x) = FreshScore(y) /\ StrLess(x, y)

\* the candidates of the list that match, in list order
Matching == SelectSeq(list, FreshMatched)

\* a sequence of items put in rank order
RECURSIVE Ranked(_)
Ranked(seq) ==
    IF seq = <<>> THEN <<>>
    ELSE LET k == CHOOSE i \in 1..Len(seq) :
                      \A j \in 1..Len(seq) : ~RankedBefore(seq[j], seq[i])
         IN  <<seq[k]>> \o Ranked(RemoveAt(seq, k))

Truncated(seq) ==
    IF opts.limit /= 0 /\ opts.limit < Len(seq) THEN SubSeq(seq, 1, opts.limit)
    ELSE seq

\* the number of times x occurs in seq
Count(x, seq) == Cardinality({i \in 1..Len(seq) : seq[i] = x})

\* C1: the sink is invoked in rank order: of two items emitted one after
\* the other, the earlier has the greater score, or the same score and a
\* sort_key that is not greater
C1_RankOrder ==
    \A i \in 1..(Len(sink) - 1) :
        \/ ScoreGreater(sink[i].score, sink[i + 1].score)
        \/ /\ sink[i].score = sink[i + 1].score
           /\ ~StrLess(sort_key(sink[i + 1].item), sort_key(sink[i].item))

C1_Witness ==
    /\ driver.pc = "done"
    /\ opts.nr_threads = 2
    /\ Len(sink) = 3
    /\ sink[1].score = sink[2].score
    /\ sink[1].item /= sink[2].item
    /\ sink[2].score /= sink[3].score

\* C2: the sequence of items delivered to the sink is a function of the
\* query, the options other than nr_threads and the candidate list: when
\* for_each_match returns, it is the list's matching candidates in rank
\* order, cut at the limit, whatever nr_threads is and however the
\* workers' calls of fill interleaved
C2_Deterministic ==
    driver.pc = "done" => Emitted = Truncated(Ranked(Matching))

C2_Witness ==
    /\ driver.pc = "done"
    /\ opts.nr_threads = 2
    /\ Len(thread_matches[1]) > 0
    /\ Len(thread_matches[2]) > 0
    /\ Len(sink) = 3
    /\ sink[1].item /= sink[3].item

\* C3: with limit L > 0 the sink is invoked min(L, M) times, M being the
\* number of matching candidates, with limit 0 it is invoked M times, and no
\* match left out ranks before an emitted one
C3_Limit ==
    driver.pc = "done" =>
        /\ Len(sink) = IF opts.limit > 0 THEN Min(opts.limit, Len(Matching))
                       ELSE Len(Matching)
        /\ \A i \in 1..Len(Matching) :
               /\ Count(Matching[i], Emitted) <= Count(Matching[i], Matching)
               /\ Count(Matching[i], Emitted) < Count(Matching[i], Matching)
                  => \A j \in 1..Len(sink) : ~RankedBefore(Matching[i], sink[j].item)
        /\ \A j \in 1..Len(sink) : Count(sink[j].item, Matching) > 0

C3_Witness ==
    /\ driver.pc = "done"
    /\ opts.limit = 1
    /\ opts.nr_threads = 2
    /\ Len(Matching) = 3
    /\ Len(thread_matches[1]) = 1
    /\ Len(thread_matches[2]) = 1
    /\ Len(sink) = 1

\* C6: with match_crfile = false a candidate equal to crfile is never
\* delivered to the sink
C6_CrfileExcluded ==
    ~opts.match_crfile =>
        \A i \in 1..Len(sink) : match_key(sink[i].item) /= opts.crfile

C6_Witness ==
    /\ driver.pc = "done"
    /\ ~opts.match_crfile
    /\ opts.crfile /= <<>>
    /\ \E i \in 1..Len(list) : list[i] = opts.crfile
    /\ Len(sink) = 2

\* the options of C7: empty query, no crfile, the other options that bear
\* on the result at their defaults
EmptyQueryDefaults ==
    /\ query = <<>>
    /\ opts.crfile = <<>>
    /\ ~opts.match_crfile
    /\ opts.limit = 0

\* a sequence of items in ascending sort_key order
RECURSIVE ByKey(_)
ByKey(seq) ==
    IF seq = <<>> THEN <<>>
    ELSE LET k == CHOOSE i \in 1..Len(seq) :
                      \A j \in 1..Len(seq) : ~StrLess(seq[j], seq[i])
         IN  <<seq[k]>> \o ByKey(RemoveAt(seq, k))

\* C7 as stated: with an empty query and no crfile every candidate, the
\* empty one included, is emitted, in ascending sort_key order
C7_AsStated ==
    (driver.pc = "done" /\ EmptyQueryDefaults) => Emitted = ByKey(list)

NonEmpty(item) == item /= <<>>

\* the number of path separators of an item, and the length of its
\* basename (a separator that ends the item belongs to the basename)
Separators(item) == Cardinality({i \in 1..Len(item) : item[i] = ChSlash})
LastInnerSeparator(item) ==
    LET seps == {0} \cup {i \in 1..(Len(item) - 1) : item[i] = ChSlash}
    IN  CHOOSE i \in seps : \A j \in seps : j <= i
BasenameLen(item) == Len(item) - LastInnerSeparator(item)

\* <<separators, basename length, length>> of x is lexicographically below
\* that of y
ShapeLess(x, y) ==
    \/ Separators(x) < Separators(y)
    \/ /\ Separators(x) = Separators(y)
       /\ \/ BasenameLen(x) < BasenameLen(y)
          \/ BasenameLen(x) = BasenameLen(y) /\ Len(x) < Len(y)

SameShape(x, y) == ~ShapeLess(x, y) /\ ~ShapeLess(y, x)

\* C7, amended: with an empty query and no crfile exactly the non-empty
\* candidates are emitted (the empty candidate equals the empty crfile and
\* is rejected), in ascending order of <<number of path separators, length
\* of the basename, length>>, and in ascending sort_key order among
\* candidates equal in these three
C7_Amended ==
    (driver.pc = "done" /\ EmptyQueryDefaults) =>
        /\ Len(sink) = Len(SelectSeq(list, NonEmpty))
        /\ \A i \in 1..Len(list) :
               NonEmpty(list[i]) => Count(list[i], Emitted) = Count(list[i], list)
        /\ \A i \in 1..(Len(sink) - 1) :
               \/ ShapeLess(sink[i].item, sink[i + 1].item)
               \/ /\ SameShape(sink[i].item, sink[i + 1].item)
                  /\ ~StrLess(sort_key(sink[i + 1].item), sort_key(sink[i].item))

C7_Witness ==
    /\ driver.pc = "done"
    /\ EmptyQueryDefaults
    /\ Len(list) = 3
    /\ \E i \in 1..Len(list) : list[i] = <<>>
    /\ Len(sink) = 2
    /\ StrLess(sort_key(sink[2].item), sort_key(sink[1].item))

C9_MatchPositions ==
    \A i \in 1..Len(sink) :
        sink[i].info =>
            LET posns == sink[i].posns
                item == sink[i].item
            IN  /\ \A k \in 1..Len(posns) : posns[k] >= 0 /\ posns[k] < Len(item)
                /\ \A k \in 1..(Len(posns) - 1) : posns[k] < posns[k + 1]
                /\ Len(posns) = Len(query)
                /\ \A k \in 1..Len(posns) :
                       (IF (\A n \in 1..Len(query) : ~is_uppercase(query[n]))
                           /\ is_uppercase(item[posns[k] + 1])
                        THEN uppercase_to_lowercase(item[posns[k] + 1])
                        ELSE item[posns[k] + 1]) = query[k]

(***************************************************************************)
(* Properties of the matchers (specification SpecMatcher)                  *)
(***************************************************************************)
\* the verdict of the last call of match
LastMatched == IF mt.gen = "new" THEN mt.matcher.matched ELSE mt.om.matched

\* the code points of the query and of the last item
QueryChars == decode(query, opts.unicode)
LastChars == decode(mt.last, opts.unicode)

HasUppercase(q) == \E n \in 1..Len(q) : is_uppercase(q[n])

\* the case-folding rule: an uppercase candidate character is folded to
\* lowercase iff the query has no uppercase character
Folded(q, c) ==
    IF ~HasUppercase(q) /\ is_uppercase(c) THEN uppercase_to_lowercase(c) ELSE c

\* the strictly increasing maps of the query's characters to equal (folded)
\* characters of cs
Embeddings(q, cs) ==
    { f \in [1..Len(q) -> 1..Len(cs)] :
        /\ \A k \in 1..(Len(q) - 1) : f[k] < f[k + 1]
        /\ \A k \in 1..Len(q) : Folded(q, cs[f[k]]) = q[k] }

IsSubsequence(q, cs) == Embeddings(q, cs) /= {}

\* the last call was one C4 and C5 speak of: a match in non-strict path
\* mode of a candidate that the crfile rule does not exclude
Admitted ==
    /\ mt.n > 0
    /\ mt.gen = "new" => (opts.match_crfile
                          \/ LastChars /= decode(opts.crfile, opts.unicode))
    /\ mt.gen = "old" => ~mt.om.require_full_part_

\* C4: the matcher reports a match iff the query's code points occur in
\* order as a subsequence of the candidate's code points under the
\* case-folding rule (non-strict path mode, candidate not excluded by the
\* crfile rule)
C4_MatchIffSubsequence ==
    Admitted => (LastMatched <=> IsSubsequence(QueryChars, LastChars))

C4_Witness ==
    /\ mt.gen = "new"
    /\ mt.n = 2
    /\ query = <<97, 97>>
    /\ mt.last = <<65, 47, 97>>
    /\ Admitted
    /\ LastMatched

\* "foo", "Foo" and "FOO"
Foos == { <<102, 111, 111>>, <<70, 111, 111>>, <<70, 79, 79>> }

\* cs with its uppercase characters made lowercase
Lowered(cs) ==
    [i \in 1..Len(cs) |->
        IF is_uppercase(cs[i]) THEN uppercase_to_lowercase(cs[i]) ELSE cs[i]]

\* q occurs in cs as a subsequence of equal characters
ExactSubsequence(q, cs) ==
    \E f \in [1..Len(q) -> 1..Len(cs)] :
        /\ \A k \in 1..(Len(q) - 1) : f[k] < f[k + 1]
        /\ \A k \in 1..Len(q) : cs[f[k]] = q[k]

\* C5: a query without an uppercase character is matched against the
\* candidate with its uppercase characters folded to lowercase, a query
\* with an uppercase character against the candidate's characters as they
\* are; so "Foo" matches only "Foo" of "foo", "Foo" and "FOO", and "foo"
\* matches all three
C5_Smartcase ==
    Admitted =>
        /\ HasUppercase(QueryChars)
           => (LastMatched <=> ExactSubsequence(QueryChars, LastChars))
        /\ ~HasUppercase(QueryChars)
           => (LastMatched <=> ExactSubsequence(QueryChars, Lowered(LastChars)))
        /\ (query = <<70, 111, 111>> /\ mt.last \in Foos)
           => (LastMatched <=> mt.last = <<70, 111, 111>>)
        /\ (query = <<102, 111, 111>> /\ mt.last \in Foos) => LastMatched

C5_Witness ==
    /\ mt.gen = "new"
    /\ mt.n = 2
    /\ mt.last \in Foos
    /\ \/ query = <<70, 111, 111>> /\ mt.last = <<70, 79, 79>> /\ ~LastMatched
       \/ query = <<102, 111, 111>> /\ mt.last = <<70, 79, 79>> /\ LastMatched
    /\ Admitted

\* the byte offsets of the code points that embedding f selects of item
BytesOf(item, f) ==
    LET chars == for_each_char(item, TRUE)
    IN  UNION { chars[f[k]].pos .. (chars[f[k]].pos + chars[f[k]].len - 1) :
                    k \in DOMAIN f }

\* the positions a newly constructed Matcher reports after its first match
FirstPositions == match_positions(mt.matcher, {}).posns

\* C10: in UTF-8 mode the match positions are byte offsets into the
\* candidate: they are all the bytes of the matched code points, one code
\* point per query code point, and no other byte; for query "ab" and
\* candidate "a<U+65E5>b" they are 0 and 4
C10_ByteOffsets ==
    (mt.gen = "new" /\ mt.n = 1 /\ opts.unicode /\ mt.matcher.matched) =>
        /\ \E f \in Embeddings(QueryChars, LastChars) :
               {FirstPositions[k] : k \in 1..Len(FirstPositions)}
                   = BytesOf(mt.last, f)
        /\ (query = <<97, 98>> /\ mt.last = <<97, 230, 151, 165, 98>>)
           => FirstPositions = <<0, 4>>

\* for comparison: in byte mode the positions of a first match are an
\* embedding of the query
FirstPositionsByteMode ==
    (mt.gen = "new" /\ mt.n = 1 /\ ~opts.unicode /\ mt.matcher.matched) =>
        \E f \in Embeddings(QueryChars, LastChars) :
            FirstPositions = [k \in 1..Len(QueryChars) |-> f[k] - 1]


\* C11: every match that survived the workers' matching, the sort and the
\* limit matches again in the emit loop's own Matcher, with the score the
\* worker gave it, so that for_each_match never raises "failed to re-match
\* known match"
C11_Rematch ==
    /\ driver.what /= "failed to re-match known match"
    /\ \A i \in 1..Len(sink) : sink[i].info => sink[i].rescore = sink[i].score

C11_Witness ==
    /\ driver.pc = "done"
    /\ opts.want_match_info
    /\ opts.crfile /= <<>>
    /\ Len(sink) >= 2
    /\ sink[1].score /= sink[2].score
    /\ sink[2].rescore = sink[2].score


\* C12: when for_each_match ends by raising an error, because a worker
\* ended with an exception or because a re-match failed, the sink has not
\* been called for any item
C12_NoSinkOnError ==
    ((\E t \in DOMAIN workers : workers[t].has_exception)
        \/ driver.pc \in {"unwind", "error"})
    => sink = <<>>

C12_Witness ==
    /\ driver.pc = "error"
    /\ driver.what = "std::bad_alloc"
    /\ \E t \in DOMAIN workers : thread_matches[t] /= <<>>
    /\ sink = <<>>


\* the failed worker of the lowest index
FirstFailed == CHOOSE t \in DOMAIN workers :
    /\ workers[t].has_exception
    /\ \A u \in 1..(t - 1) : ~workers[u].has_exception

\* C13: an exception thrown in a worker is caught there and kept as the
\* worker's message; the other workers go on until the source is
\* exhausted; and the caller gets the error, the message of the first
\* failed worker, only when every worker has ended and been joined
C13_WorkerException ==
    /\ \A t \in DOMAIN workers :
           workers[t].has_exception =>
               /\ workers[t].pc = "done"
               /\ workers[t].exception_msg =
                      IF unimplemented THEN "cpsm built without Unicode support"
                      ELSE "std::bad_alloc"
    /\ (driver.pc = "error" /\ \E t \in DOMAIN workers : workers[t].has_exception) =>
           /\ \A t \in DOMAIN workers : workers[t].pc = "done"
           /\ (\E t \in DOMAIN workers : ~workers[t].has_exception) =>
                  src.i_ = src.size_
           /\ driver.what = workers[FirstFailed].exception_msg

C13_Witness ==
    /\ driver.pc = "error"
    /\ opts.nr_threads = 2
    /\ workers[1].has_exception
    /\ ~workers[2].has_exception
    /\ src.i_ = src.size_
    /\ thread_matches[2] /= <<>>


\* the rank classes of test_match_order, best first
FbTier(item) ==
    IF item = Fbar THEN 0
    ELSE IF item = FooFbar THEN 1
    ELSE IF item \in {FooFoo_bar, FooFooBarCamel} THEN 2
    ELSE IF item = FooFoo_bar_test THEN 3
    ELSE IF item = FooFoo_test_bar THEN 4
    ELSE IF item = FooBar THEN 5
    ELSE 6

FbMatched == FbItems \ {Barfoo, FooQux}

\* C14: for query "fb" in path mode without a crfile, of the twelve items
\* of test_match_order "barfoo" and "foo/qux" do not match and the other
\* ten do; "fbar" is ranked before all others and "foo/fbar" before all but
\* "fbar"; "foo/foo_bar" and "foo/FooBar" before "foo/foo_bar_test", that
\* before "foo/foo_test_bar", that before "foo/bar", and that before
\* "foo/foobar", "foo/abar" and "foob/ar"
C14_MatchOrder ==
    (mt.gen = "new" /\ mt.n > 0 /\ query = Fb /\ opts.crfile = <<>>) =>
        /\ mt.matcher.matched <=> mt.last \in FbMatched
        /\ mt.matcher.matched =>
               \A other \in FbMatched :
                   FbTier(mt.last) < FbTier(other) =>
                       is_better([score |-> score(mt.matcher), item |-> mt.last],
                                 [score |-> FreshScore(other), item |-> other])

C14_Witness ==
    /\ mt.gen = "new"
    /\ mt.n = 2
    /\ query = Fb
    /\ opts.crfile = <<>>
    /\ mt.last = FooBar
    /\ mt.matcher.matched
    /\ ScoreGreater(score(mt.matcher), FreshScore(FoobAr))


\* the items made of one component without a separator and one separator
\* after it or before it
NoSeparator(cs) == \A i \in 1..Len(cs) : cs[i] /= ChSlash
Component(item) ==
    IF item /= <<>> /\ item[Len(item)] = ChSlash THEN SubSeq(item, 1, Len(item) - 1)
    ELSE IF item /= <<>> /\ item[1] = ChSlash THEN SubSeq(item, 2, Len(item))
    ELSE <<ChSlash>>
SingleComponent(item) == Len(item) >= 2 /\ NoSeparator(Component(item))

\* the last call matched an item with the Matcher of matcher.h for a
\* non-empty query, and the crfile rule does not exclude the item
SpecialPathCase ==
    /\ mt.gen = "new"
    /\ Admitted
    /\ query /= <<>>

\* C15 as stated: for a non-empty query the empty candidate and the
\* candidate that is one path separator are never matched
C15_AsStated ==
    (SpecialPathCase /\ mt.last \in {<<>>, <<ChSlash>>}) => ~mt.matcher.matched

\* C15: for a non-empty query the empty candidate is never matched, the
\* candidate that is one path separator is matched only by the query that
\* is one path separator, and both are processed without a read out of
\* range; a candidate of one component that contains the query, with a
\* separator after it or before it, matches; for query "a", "" and "/" do
\* not match and "a/" and "/a" do
C15_SpecialPaths ==
    SpecialPathCase =>
        /\ mt.last = <<>> => ~mt.matcher.matched
        /\ mt.last = <<ChSlash>> => (mt.matcher.matched <=> query = <<ChSlash>>)
        /\ mt.last \in {<<>>, <<ChSlash>>} => ~mt.matcher.ub
        /\ (SingleComponent(mt.last)
              /\ IsSubsequence(QueryChars, decode(Component(mt.last), opts.unicode)))
           => mt.matcher.matched
        /\ query = <<ChLowerA>> =>
               /\ mt.last \in {<<>>, <<ChSlash>>} => ~mt.matcher.matched
               /\ mt.last \in {<<ChLowerA, ChSlash>>, <<ChSlash, ChLowerA>>}
                      => mt.matcher.matched

C15_Witness ==
    /\ SpecialPathCase
    /\ mt.n = 2
    /\ query = <<ChLowerA>>
    /\ mt.last = <<ChLowerA, ChSlash>>
    /\ mt.matcher.matched
    /\ ~mt.matcher.ub


HasSeparator(q) == \E i \in 1..Len(q) : q[i] = ChSlash

\* the index of the component of cs that position i lies in; a separator
\* ends its component
ComponentAt(cs, i) == Cardinality({j \in 1..(i - 1) : cs[j] = ChSlash})

\* q can be embedded in cs so that query characters that are neighbours
\* within a block between separators lie in one component of cs
StrictAccepts(q, cs) ==
    \E f \in Embeddings(q, cs) :
        \A k \in 1..(Len(q) - 1) :
            (q[k] /= ChSlash /\ q[k + 1] /= ChSlash)
                => ComponentAt(cs, f[k]) = ComponentAt(cs, f[k + 1])

\* the verdict of a Matcher of matcher.cc constructed for the current query
\* in the given mode
OldVerdict(mode, item) ==
    old_match(OldMatcher(query, opts.path, mode, opts.unicode, opts.crfile), item)

\* the last call was a match of the Matcher of matcher.cc that requires
\* full parts
StrictCase == mt.gen = "old" /\ mt.n > 0 /\ mt.om.require_full_part_

\* C16 as stated: in STRICT mode query "src/mat" matches "src/matcher.cc"
\* and "test/src/match.h" and rejects "src_old/matcher.cc"
C16_AsStated ==
    (StrictCase /\ query = SrcMat
        /\ mt.last \in {SrcMatcherCc, TestSrcMatchH, SrcOldMatcherCc})
    => (mt.om.matched <=> mt.last /= SrcOldMatcherCc)

\* C16: AUTO gives the verdicts of STRICT for a query with a path separator
\* and those of NORMAL for one without; in STRICT mode a candidate matches
\* iff the query is a subsequence of it in which every block of query
\* characters between separators lies within one candidate component;
\* "src/mat" matches "src/matcher.cc", "test/src/match.h" and
\* "src_old/matcher.cc" and rejects "sr/c/mat", which NORMAL accepts
C16_StrictMode ==
    (mt.gen = "old" /\ mt.n > 0) =>
        /\ OldVerdict(AUTO, mt.last)
               = OldVerdict(IF HasSeparator(query) THEN STRICT ELSE NORMAL, mt.last)
        /\ (mt.om.require_full_part_ /\ Len(query) <= MaxQueryLen)
               => (mt.om.matched <=> StrictAccepts(QueryChars, LastChars))
        /\ (mt.om.require_full_part_ /\ query = SrcMat)
               => /\ mt.om.matched <=> mt.last /= SrCMat
                  /\ OldVerdict(NORMAL, SrCMat)

C16_Witness ==
    /\ StrictCase
    /\ query = SrcMat
    /\ mt.last = SrcOldMatcherCc
    /\ mt.om.matched
    /\ ~OldVerdict(STRICT, SrCMat)


\* the matching candidates with their scores, in list order
AllMatched ==
    [i \in 1..Len(Matching) |->
        [score |-> FreshScore(Matching[i]), item |-> Matching[i]]]

ItemsOf(matches) == [i \in 1..Len(matches) |-> matches[i].item]

IsPrefix(a, b) == Len(a) <= Len(b) /\ SubSeq(b, 1, Len(a)) = a

\* the limits not below the limit of this call: the greater ones and 0,
\* which is no limit
LimitsAbove == {k \in 0..(MaxLimit + 1) : k = 0 \/ k >= opts.limit}

\* C17: for limits 0 < k1 <= k2 the sequence delivered with limit k1 is a
\* prefix of the sequence that sorting and limiting the matches with k2
\* gives, and of the sequence without a limit, whatever nr_threads is
C17_LimitPrefix ==
    (driver.pc = "done" /\ opts.limit > 0) =>
        \A k2 \in LimitsAbove :
            \A longer \in sort_limit(AllMatched, k2) :
                IsPrefix(Emitted, ItemsOf(longer))

C17_Witness ==
    /\ driver.pc = "done"
    /\ opts.limit = 1
    /\ opts.nr_threads = 2
    /\ Len(Matching) = 3
    /\ \E longer \in sort_limit(AllMatched, 2) :
           /\ Len(longer) = 2
           /\ Emitted = <<longer[1].item>>
           /\ longer[2].score /= longer[1].score


\* the bytes of str from offset pos on, 0 past the end
ByteAt(str, i) == IF i >= Len(str) THEN 0 ELSE At(str, i)
Continues(b) == b >= 128 /\ b <= 191

\* the length of the well-formed UTF-8 sequence that starts at offset pos
\* of str (Unicode, table 3-7), 0 if there is none; NUL counts as
\* ill-formed
WellFormedLen(str, pos) ==
    LET b0 == ByteAt(str, pos)
        b1 == ByteAt(str, pos + 1)
        b2 == ByteAt(str, pos + 2)
        b3 == ByteAt(str, pos + 3)
    IN  IF b0 >= 1 /\ b0 <= 127 THEN 1
        ELSE IF b0 >= 194 /\ b0 <= 223 /\ Continues(b1) THEN 2
        ELSE IF b0 >= 224 /\ b0 <= 239 /\ Continues(b1) /\ Continues(b2)
                /\ (b0 = 224 => b1 >= 160) THEN 3
        ELSE IF b0 >= 240 /\ b0 <= 244 /\ Continues(b1) /\ Continues(b2)
                /\ Continues(b3) /\ (b0 = 240 => b1 >= 144)
                /\ (b0 = 244 => b1 <= 143) THEN 4
        ELSE 0

\* the calls f(c, pos, len) the decoder made for the last item
LastCalls == for_each_char(mt.last, TRUE)

\* C18: in UTF-8 mode every ill-formed byte decodes to 0xDC00 + the byte
\* and decoding resumes at the next byte, so that two different ill-formed
\* bytes give different code points
C18_IllFormedBytes ==
    (opts.unicode /\ mt.n > 0) =>
        /\ \A i \in 1..Len(LastCalls) :
               WellFormedLen(mt.last, LastCalls[i].pos) = 0 =>
                   /\ LastCalls[i].c = SurrogateBase + At(mt.last, LastCalls[i].pos)
                   /\ LastCalls[i].len = 1
        /\ decode(<<128>>, TRUE) /= decode(<<255>>, TRUE)

\* what the decoder does with an ill-formed byte: one call with 0xDC00 and
\* length 1
IllFormedBytesAllAlike ==
    (opts.unicode /\ mt.n > 0) =>
        \A i \in 1..Len(LastCalls) :
            WellFormedLen(mt.last, LastCalls[i].pos) = 0 =>
                LastCalls[i].c = SurrogateBase /\ LastCalls[i].len = 1


\* the component lists of the crfile and of the last item, and the length
\* of their longest common prefix
CrfileParts == path_components_of(opts.crfile)
LastParts == path_components_of(mt.last)
CommonParts(x, y) ==
    CHOOSE k \in 0..Min(Len(x), Len(y)) :
        /\ SubSeq(x, 1, k) = SubSeq(y, 1, k)
        /\ k < Min(Len(x), Len(y)) => x[k + 1] /= y[k + 1]
ComponentDistance(x, y) == Len(x) + Len(y) - (2 * CommonParts(x, y))

\* the distance of the last successful match: the Scorer's path_distance
\* in matcher.cc, crfile_path_distance_ in matcher.h
DistanceCase ==
    /\ mt.n > 0
    /\ opts.path
    /\ LastMatched
LastDistance ==
    IF mt.gen = "new" THEN mt.matcher.crfile_path_distance_ ELSE mt.om.path_distance

\* C19 as stated: the path distance is |x| + |y| - 2k for the component
\* lists x and y and their k common leading components, in both Matchers
C19_AsStated ==
    DistanceCase => LastDistance = ComponentDistance(CrfileParts, LastParts)

\* the separators of s from offset k on
SeparatorsFrom(s, k) == Cardinality({i \in (k + 1)..Len(s) : s[i] = ChSlash})
FirstDifference(a, b) ==
    CHOOSE k \in 0..Min(Len(a), Len(b)) :
        /\ SubSeq(a, 1, k) = SubSeq(b, 1, k)
        /\ k < Min(Len(a), Len(b)) => a[k + 1] /= b[k + 1]

\* C19: path_distance_between of two component lists x and y is
\* |x| + |y| - 2k, k being the number of their common leading components;
\* path_distance of path_util.h, on two character ranges, is 0 for equal
\* paths and otherwise 1 plus the number of separators that follow the
\* first difference in either path; both are symmetric and 0 iff the paths
\* are equal
C19_PathDistance ==
    DistanceCase =>
        /\ mt.gen = "old" =>
               /\ LastDistance = ComponentDistance(CrfileParts, LastParts)
               /\ path_distance_between(LastParts, CrfileParts) = LastDistance
               /\ LastDistance = 0 <=> mt.last = opts.crfile
        /\ mt.gen = "new" =>
               /\ LastDistance =
                      IF LastChars = mt.matcher.crfile_ THEN 0
                      ELSE 1 + SeparatorsFrom(LastChars,
                                   FirstDifference(LastChars, mt.matcher.crfile_))
                             + SeparatorsFrom(mt.matcher.crfile_,
                                   FirstDifference(LastChars, mt.matcher.crfile_))
               /\ path_distance(mt.matcher.crfile_, LastChars, opts.path) = LastDistance
               /\ LastDistance = 0 <=> LastChars = mt.matcher.crfile_

C19_Witness ==
    /\ DistanceCase
    /\ mt.gen = "old"
    /\ opts.crfile = <<97, 47, 97>>
    /\ mt.last = <<97, 47, 65>>
    /\ LastDistance = 2
    /\ path_distance(opts.crfile, mt.last, opts.path) = 1


\* C20: set_nr_threads(0) throws and leaves the stored value as it was, so
\* nr_threads() is at least 1 after any sequence of setter calls, failed
\* ones included, and for_each_match starts at least one worker
C20_NrThreads ==
    /\ opts.nr_threads >= 1
    /\ binding.calls > 0 =>
           /\ binding.threw <=> binding.arg = 0
           /\ opts.nr_threads = IF binding.threw THEN binding.prev ELSE binding.arg
    /\ driver.pc /= "options" => Len(workers) = opts.nr_threads
    /\ driver.pc \notin {"options", "spawn"} =>
           \A t \in 1..opts.nr_threads : workers[t].pc /= "idle"

C20_Witness ==
    /\ driver.pc = "options"
    /\ binding.calls = 2
    /\ binding.arg = 0
    /\ binding.threw
    /\ binding.prev = 2
    /\ opts.nr_threads = 2

\* a worker thread has been started
Started(t) == workers[t].pc /= "idle"

\* C21: requesting unicode in a build without Unicode support fails when
\* the options are bound: no worker is ever started and no candidate is
\* ever pulled from the source
C21_FailsAtBinding ==
    unimplemented =>
        /\ \A t \in DOMAIN workers : ~Started(t)
        /\ src.i_ = 0

\* what the build without Unicode support does: every worker is started
\* and fails in the constructor of its Matcher, before its first fill; the
\* driver raises that Error from the join loop and the sink is never called
FailsInEveryWorker ==
    unimplemented =>
        /\ src.i_ = 0
        /\ sink = <<>>
        /\ \A t \in DOMAIN workers :
               Started(t) =>
                   /\ workers[t].pc = "done"
                   /\ workers[t].has_exception
                   /\ workers[t].exception_msg = "cpsm built without Unicode support"
        /\ driver.pc \in {"options", "spawn", "join", "unwind", "error"}
        /\ driver.pc = "error" =>
               driver.what = "cpsm built without Unicode support"

\* the Error of a build without Unicode support has reached the caller
\* after two workers had been started
C21_Witness ==
    /\ unimplemented
    /\ driver.pc = "error"
    /\ Len(workers) = 2
    /\ \A t \in DOMAIN workers : Started(t)

\* the number of workers' batches that hold list element i
InBatches(i) ==
    Cardinality({<<t, k>> \in (DOMAIN hist.pulled) \X (1..Len(list)) :
                    k <= Len(hist.pulled[t]) /\ hist.pulled[t][k] = i})

\* for_each_match has joined every worker without finding an exception
Joined == driver.pc \in {"combine", "emit", "done"}

\* C22: however the workers' calls of fill interleave, every candidate
\* pulled from the source is in exactly one worker's batch or has been
\* passed to matcher.match exactly once, also a candidate appended by the
\* call of fill that returned false; when the workers have been joined
\* every candidate of the list has been scored exactly once; and a worker
\* that is about to call fill has an empty batch
C22_ScoredOnce ==
    /\ \A t \in DOMAIN hist.pulled :
           /\ workers[t].pc = "fill" => workers[t].batch = <<>>
           /\ Len(hist.pulled[t]) = Len(workers[t].batch)
           /\ \A k \in 1..Len(workers[t].batch) :
                  workers[t].batch[k] = list[hist.pulled[t][k]]
    /\ \A i \in DOMAIN hist.scored :
           InBatches(i) + Len(hist.scored[i]) = IF i <= src.i_ THEN 1 ELSE 0
    /\ (Joined /\ opts.nr_threads > 0) =>
           \A i \in 1..Len(list) : Len(hist.scored[i]) = 1

\* two workers have been joined, each has scored a candidate, and the call
\* of fill that returned false had appended the last candidate
C22_Witness ==
    /\ Joined
    /\ opts.nr_threads = 2
    /\ Len(list) = 3
    /\ \E i, j \in 1..Len(list) : hist.scored[i] = <<1>> /\ hist.scored[j] = <<2>>
    /\ \E t \in 1..2 : ~hist.fills[t].more /\ hist.fills[t].appended > 0

\* worker t has left its do-while loop by the loop condition
Stopped(t) == workers[t].pc \in {"publish", "done"} /\ ~workers[t].has_exception

\* C23 as stated: a worker stops calling fill only after a call that
\* returned false and appended no candidate
C23_AsStated ==
    \A t \in DOMAIN hist.fills :
        Stopped(t) =>
            /\ hist.fills[t].called
            /\ ~hist.fills[t].more
            /\ hist.fills[t].appended = 0

\* C23: a worker stops calling fill after the first call that returned
\* false, whether or not that call appended candidates: it has left the
\* loop only after such a call, it never calls fill again after one, and
\* the candidates that call appended have been matched when it leaves
C23_StopsAtFalse ==
    \A t \in DOMAIN hist.fills :
        /\ Stopped(t) =>
               /\ hist.fills[t].called
               /\ ~hist.fills[t].more
               /\ hist.pulled[t] = <<>>
        /\ (workers[t].pc = "fill" /\ hist.fills[t].called) => hist.fills[t].more
        /\ (hist.fills[t].called /\ hist.fills[t].more) => ~Stopped(t)

\* a worker has ended whose last call of fill returned false and had
\* appended candidates, all of them scored by that worker
C23_Witness ==
    \E t \in DOMAIN hist.fills :
        /\ workers[t].pc = "done"
        /\ Stopped(t)
        /\ ~hist.fills[t].more
        /\ hist.fills[t].appended = 2
        /\ \E i \in 1..(Len(list) - 1) :
               hist.scored[i] = <<t>> /\ hist.scored[i + 1] = <<t>> /\ i + 1 = Len(list)

\* the matches worker t has seen so far, in the order it saw them
SeenBy(t) == hist.seen[t]

\* the matches vector of worker t, which it moves to thread_matches[t] when
\* it ends
KeptBy(t) == IF workers[t].pc = "done" THEN thread_matches[t] ELSE workers[t].matches

\* kept holds the n best elements of seen
HoldsBest(kept, seen, n) ==
    /\ Len(kept) = Min(n, Len(seen))
    /\ \A k \in 1..Len(kept) : Count(kept[k], kept) <= Count(kept[k], seen)
    /\ \A i \in 1..Len(seen) :
           Count(seen[i], kept) < Count(seen[i], seen) =>
               \A k \in 1..Len(kept) : ~is_better(seen[i], kept[k])

\* C24: with a limit L > 0, after each candidate a worker has processed
\* its matches vector holds at most L entries, and these are the L best,
\* under the rank order, of the matches the worker has seen so far: what
\* was removed on overflow was the worst entry
C24_WorkerKeepsBest ==
    opts.limit > 0 =>
        \A t \in DOMAIN hist.fills :
            ~workers[t].has_exception =>
                /\ Len(KeptBy(t)) <= opts.limit
                /\ HoldsBest(KeptBy(t), SeenBy(t), opts.limit)

\* a worker with limit 2 has seen three matches and has dropped the one it
\* saw first; the one it saw last is among the two it kept
C24_Witness ==
    /\ opts.limit = 2
    /\ \E t \in DOMAIN hist.fills :
           /\ ~workers[t].has_exception
           /\ Len(SeenBy(t)) = 3
           /\ Count(SeenBy(t)[1], KeptBy(t)) = 0
           /\ Count(SeenBy(t)[3], KeptBy(t)) = 1

\* the position of worker thread t, if for_each_match has such a thread
WorkerPc(t) == IF t \in DOMAIN workers THEN workers[t].pc ELSE "none"

\* for_each_match has returned or has raised, and no thread is left
Completed ==
    /\ driver.pc \in {"done", "error"}
    /\ \A t \in DOMAIN workers : workers[t].pc = "done"

\* C25: under fair scheduling every call of for_each_match eventually
\* completes, that is, it returns after finitely many calls of the sink or
\* it raises, and by then every worker that was started has left its loop
\* and has ended, also one that found the source exhausted
C25_Terminates == <>[]Completed

\* for_each_match has returned after two calls of the sink; one of its two
\* workers found the source exhausted at its only call of fill
C25_Witness ==
    /\ Completed
    /\ driver.pc = "done"
    /\ opts.nr_threads = 2
    /\ Len(sink) = 2
    /\ \E t \in 1..2 :
           /\ hist.fills[t].called
           /\ ~hist.fills[t].more
           /\ hist.fills[t].appended = 0
           /\ hist.seen[t] = <<>>

\* the driver has joined worker thread t
JoinedBy(t) ==
    \/ driver.pc \in {"combine", "emit", "done"}
    \/ driver.pc \in {"join", "unwind"} /\ t <= driver.i
    \/ driver.pc = "error" /\ sink /= <<>>

\* the sink has been called: every worker has ended and has been joined,
\* and the driver is in the emit loop, has left it or has raised from it
SinkAfterJoin ==
    sink /= <<>> =>
        /\ driver.pc \in {"emit", "done", "error"}
        /\ \A t \in DOMAIN workers : workers[t].pc = "done" /\ JoinedBy(t)
        /\ \E merged \in sort_and_limit(Concat(thread_matches, opts.nr_threads)) :
               driver.all_matches = merged

\* a worker the driver has joined has ended, so what the driver reads of
\* thread_matches[t] is what the worker published
ReadAfterJoin ==
    \A t \in DOMAIN workers : JoinedBy(t) => workers[t].pc = "done"

\* a step that calls the sink is a step of the driver in the emit loop and
\* makes one call; no worker takes a step at that time or after it; and a
\* published vector does not change once its worker has been joined
SinkStep ==
    /\ sink' /= sink =>
           /\ driver.pc = "emit"
           /\ Len(sink') = Len(sink) + 1
           /\ SubSeq(sink', 1, Len(sink)) = sink
           /\ workers' = workers
    /\ sink /= <<>> => (workers' = workers /\ thread_matches' = thread_matches)
    /\ \A t \in DOMAIN thread_matches :
           JoinedBy(t) => thread_matches'[t] = thread_matches[t]

\* C26: the sink is called by the driver only, one call at a time, and
\* never while a worker is running: the first call comes after every
\* worker has been joined and the workers' vectors have been merged, and
\* the driver reads a worker's published vector only after it has joined
\* that worker
C26_SinkAfterJoin == [](SinkAfterJoin /\ ReadAfterJoin) /\ [][SinkStep]_vars

\* the first call of the sink has been made; both workers had published
\* matches, which the driver merged after it had joined them
C26_Witness ==
    /\ driver.pc = "emit"
    /\ Len(sink) = 1
    /\ opts.nr_threads = 2
    /\ Len(thread_matches[1]) > 0
    /\ Len(thread_matches[2]) > 0
    /\ Len(driver.all_matches) = Len(thread_matches[1]) + Len(thread_matches[2])

\* the Matcher of matcher.cc has matched the last item and the key segment
\* [query_key, end) of its query is not empty
KeyCase ==
    /\ mt.gen = "old"
    /\ mt.n > 0
    /\ mt.om.matched
    /\ mt.om.query_ /= <<>>
    /\ mt.om.key.query_key < Len(mt.om.query_)

\* the locals at the end of pass 0 and of pass 1 over the last item's key
LastPass(pass) ==
    key_pass(mt.om, mt.om.key.chars, pass, 0, PassStart(mt.om.key.query_key))

\* the key segment starts at the start of the query's basename
QkeyStart == mt.om.key.query_key = mt.om.query_key_begin_index_

\* the key segment is matched by the first characters of the key
KeyPrefix ==
    /\ Len(mt.om.query_) - mt.om.key.query_key <= Len(mt.om.key.chars)
    /\ \A j \in 0..(Len(mt.om.query_) - mt.om.key.query_key - 1) :
           match_char(mt.om, At(mt.om.key.chars, j),
                      At(mt.om.query_, mt.om.key.query_key + j))

\* what C27 says of every tier but the first
LowerTiers ==
    IF LastPass(0).consumed /\ QkeyStart THEN LowScore(mt.om.key.word_index_sum)
    ELSE IF QkeyStart
    THEN IF mt.om.key.start_matched THEN MaxMinus(3) ELSE MaxMinus(2)
    ELSE IF mt.om.key.start_matched THEN MaxMinus(1) ELSE MaxMinus(0)

\* the pass that match_key takes its results from, and unmatched_len
PassAndLength ==
    /\ LastPass(1).consumed
    /\ mt.om.key.refined
    /\ mt.om.key.pass = IF LastPass(0).consumed THEN 0 ELSE 1
    /\ mt.om.key.i = LastPass(mt.om.key.pass).i
    /\ mt.om.key.unmatched_len = Len(mt.om.key.chars) - (mt.om.key.i + 1)

\* C27 as stated: prefix_score is 0 whenever the key segment is matched by
\* the first characters of the key
C27_AsStated ==
    KeyCase =>
        /\ PassAndLength
        /\ mt.om.key.prefix_score = IF KeyPrefix THEN LowScore(0) ELSE LowerTiers

\* C27: for a match with a non-empty key segment, match_key takes pass 0
\* when pass 0 consumes the key segment and pass 1 otherwise, pass 1 always
\* consumes it, unmatched_len is len(key) - (index of the last match + 1),
\* and prefix_score is MAX-1 or MAX, with or without the first key
\* character matched, when the key segment does not start at the start of
\* the query's basename; else 0 when the key segment is matched by the
\* first characters of the key; else word_index_sum after pass 0; else
\* MAX-3 or MAX-2 after pass 1, with or without the first key character
\* matched
C27_KeyRefinement ==
    KeyCase =>
        /\ PassAndLength
        /\ mt.om.key.prefix_score =
               IF ~QkeyStart
               THEN IF mt.om.key.start_matched THEN MaxMinus(1) ELSE MaxMinus(0)
               ELSE IF KeyPrefix THEN LowScore(0)
               ELSE LowerTiers

\* the key segment is matched by the first characters of the key and does
\* not start at the start of the query's basename: prefix_score is MAX-1
C27_Witness ==
    /\ KeyCase
    /\ KeyPrefix
    /\ ~QkeyStart
    /\ mt.om.key.prefix_score = MaxMinus(1)

\* the Matcher of matcher.h has matched its second item
Reused == mt.gen = "new" /\ mt.n = 2

\* a newly constructed Matcher after it has matched the last item
FreshOnLast == match(NewMatcher, mt.last)

\* the verdict and the score of a reused Matcher are those of a new one
VerdictAndScoreOfReused ==
    Reused =>
        /\ mt.matcher.matched = FreshOnLast.matched
        /\ mt.matcher.matched => score(mt.matcher) = score(FreshOnLast)

\* C28: the verdict, score() and match_positions() of a Matcher for its
\* second item are those of a newly constructed Matcher for that item, and
\* match_positions() reads neither qit_basename_words_ nor the query past
\* the end
C28_ReuseIndependent ==
    /\ VerdictAndScoreOfReused
    /\ (Reused /\ mt.matcher.matched) =>
           /\ ~match_positions(mt.matcher, {}).ub
           /\ positions_of(mt.matcher) = positions_of(FreshOnLast)

\* a word_start flag of the first item is left in props_ beyond the last
\* character that check_basename_match_word_prefix visited in the second
\* item, and match_positions() of the second item reads past the end
C28_Witness ==
    /\ Reused
    /\ mt.matcher.matched
    /\ match_positions(mt.matcher, {}).ub
    /\ \E i \in 1..Len(mt.matcher.props_) :
           /\ mt.matcher.props_[i].word_start
           /\ ~FreshOnLast.props_[i].word_start

\* Lengthened agrees with match on the candidates with one more character
LengthenedAsMatched ==
    (mt.gen = "new" /\ mt.n = 1 /\ mt.last \in ScoreBases) =>
        match(NewMatcher, Append(mt.last, 98)) = Lengthened(mt.matcher, 1)

\* the members that score() packs, most significant first, each with the
\* sign that makes the greater value the better one
ScorerFields(m) ==
    << m.prefix_level_,
       IF m.whole_basename_match_ THEN 1 ELSE 0,
       m.basename_longest_submatch_,
       m.basename_match_count_,
       0 - m.basename_word_gaps_,
       m.crfile_basename_shared_words_,
       0 - m.crfile_path_distance_,
       0 - m.unmatched_suffix_len_,
       0 - Len(m.item_) >>

\* C29: score() orders any two matching candidates as the lexicographic
\* comparison of their fields does, most significant first, greater being
\* better for the maximised fields and smaller for the penalties
C29_PackedOrder ==
    (call.op = "score" /\ call.compared) =>
        (call.greater
            <=> ScoreGreater(ScorerFields(call.x), ScorerFields(call.y)))

\* the same for candidates whose fields fit their widths
PackedOrderWithinWidths ==
    (/\ call.op = "score" /\ call.compared
     /\ call.x.unmatched_suffix_len_ < 2 ^ UnmatchedSuffixBits
     /\ call.y.unmatched_suffix_len_ < 2 ^ UnmatchedSuffixBits) =>
        (call.greater
            <=> ScoreGreater(ScorerFields(call.x), ScorerFields(call.y)))

\* two candidates that differ in unmatched_suffix_len_ only below the
\* least significant field have been compared, one with an unmatched
\* suffix that does not fit the field: its penalty is packed as that of an
\* unmatched suffix of length 0
C29_Witness ==
    /\ call.op = "score"
    /\ call.compared
    /\ call.x.unmatched_suffix_len_ = 2 ^ UnmatchedSuffixBits
    /\ call.y.unmatched_suffix_len_ = 1
    /\ score(call.x)[8] = penalty(0, UnmatchedSuffixBits)
    /\ call.greater

\* the threads whose range holds the item of index k
ThreadsOf(k) ==
    {t \in 1..Len(call.ranges) :
        call.ranges[t].start_item <= k /\ k < call.ranges[t].end_item}

\* the ranges of the threads are disjoint and cover the items
RangesPartition ==
    /\ \A k \in 0..(call.size - 1) : Cardinality(ThreadsOf(k)) = 1
    /\ \A t \in 1..Len(call.ranges) :
           /\ call.ranges[t].start_item <= call.ranges[t].end_item
           /\ call.ranges[t].end_item <= call.size

\* the division has been made
Divided == call.op = "match" /\ call.pc /= "called"

\* C30: every call of cpsm::match returns; the number of threads it
\* divides by is not 0; the ranges of its threads are disjoint and cover
\* the items, and without items no thread gets any
C30_Ranges ==
    /\ Divided => call.pc /= "trapped" /\ call.nr_threads /= 0
    /\ (call.op = "match" /\ call.pc = "returned") => RangesPartition

\* what holds: a call that divides by a number of threads other than 0
\* does not trap, and when it returns the ranges of its threads are
\* disjoint and cover the items
RangesOfThreads ==
    (Divided /\ call.nr_threads /= 0) =>
        /\ call.pc /= "trapped"
        /\ call.pc = "returned" => RangesPartition

\* a call without items has divided by 0 threads and trapped
C30_Witness ==
    /\ call.op = "match"
    /\ call.size = 0
    /\ call.hardware_concurrency > 0
    /\ call.nr_threads = 0
    /\ call.pc = "trapped"

=============================================================================
